---- MODULE Spec2Model ----
(***************************************************************************)
(* A model of the job alert pipeline of Shantanu-8905/Job_alert_tool:      *)
(* the IdentityKey normalisation, the CSV/JSON store (LocalStorageClient), *)
(* deduplicate_jobs, the relevance scorer, the resume matcher,             *)
(* process_jobs_with_ai, the scraper manager, the adapters' scrape, one    *)
(* run of main and retry_with_backoff.                                     *)
(*                                                                         *)
(* A Python str is a sequence of characters; a character is a TLA+ string  *)
(* naming it: "a", "A", " ", "\t", "-", "U0130" (LATIN CAPITAL LETTER I    *)
(* WITH DOT ABOVE), "i", "U0307" (COMBINING DOT ABOVE), "|".               *)
(***************************************************************************)
EXTENDS Integers, Sequences, FiniteSets, TLC

VARIABLES
    \* ---- IdentityKey normalisation (utils/helpers.py, storage/local_storage.py)
    kTitle, kCompany, kKey, kStoreKey, kAgain, kBase, kDone,
    \* ---- LocalStorageClient (storage/local_storage.py)
    files, csv_rows, json_jobs, index, analytics, client, calls, interrupted,
    \* ---- deduplicate_jobs (utils/helpers.py)
    new_jobs, existing_jobs, unique_jobs, dDone,
    \* ---- JobScraperManager.scrape_all (scrapers/__init__.py)
    scraped, parallel, pending, all_jobs, seen_keys, returned,
    \* ---- EnhancedJobScorer.score_relevance (llm/job_scorer.py)
    scored_job, response, relevance, scDone,
    \* ---- process_jobs_with_ai (main.py)
    job_list, config, doubles, next_job, processed_jobs, match_calls, relevance_log,
    match_log, finished,
    \* ---- main (main.py): one run of the pipeline
    run_pc, no_email, opened, scraped_jobs, run_new_jobs, qualified_jobs, store_next,
    stored_count, append_log, notifications,
    \* ---- ResumeMatcher.match_job (llm/resume_matcher.py)
    resume_text, user_skills, matched_job, match_response, match_result,
    inference_calls, mDone,
    \* ---- BaseScraper subclasses: one scrape(max_jobs) (scrapers/*.py)
    adapter, max_jobs, stage, limit, a_pc, queries_left, items_left, stage_jobs,
    scrape_jobs, appended, failed, scrape_result, scrape_raised,
    \* ---- retry_with_backoff (utils/helpers.py)
    max_retries, base_delay, attempt, r_pc, attempts_log, waits, last_exception,
    retry_result

keyVars   == <<kTitle, kCompany, kKey, kStoreKey, kAgain, kBase, kDone>>
storeVars == <<files, csv_rows, json_jobs, index, analytics, client, calls, interrupted>>
dedupVars == <<new_jobs, existing_jobs, unique_jobs, dDone>>
scrapeVars == <<scraped, parallel, pending, all_jobs, seen_keys, returned>>
scoreVars == <<scored_job, response, relevance, scDone>>
processVars == <<job_list, config, doubles, next_job, processed_jobs, match_calls,
                 relevance_log, match_log, finished>>
runVars == <<run_pc, no_email, opened, scraped_jobs, run_new_jobs, qualified_jobs,
             store_next, stored_count, append_log, notifications>>
matchVars == <<resume_text, user_skills, matched_job, match_response, match_result,
               inference_calls, mDone>>
adapterVars == <<adapter, max_jobs, stage, limit, a_pc, queries_left, items_left,
                 stage_jobs, scrape_jobs, appended, failed, scrape_result,
                 scrape_raised>>
retryVars == <<max_retries, base_delay, attempt, r_pc, attempts_log, waits,
               last_exception, retry_result>>
vars      == <<keyVars, storeVars, dedupVars, scrapeVars, scoreVars, processVars,
               runVars, matchVars, adapterVars, retryVars>>

\* what each part of the model leaves alone
keyOthers     == <<storeVars, dedupVars, scrapeVars, scoreVars, processVars, runVars,
                  matchVars, adapterVars, retryVars>>
storeOthers   == <<keyVars, dedupVars, scrapeVars, scoreVars, processVars, runVars,
                  matchVars, adapterVars, retryVars>>
dedupOthers   == <<keyVars, storeVars, scrapeVars, scoreVars, processVars, runVars,
                  matchVars, adapterVars, retryVars>>
scrapeOthers  == <<keyVars, storeVars, dedupVars, scoreVars, processVars, runVars,
                  matchVars, adapterVars, retryVars>>
scoreOthers   == <<keyVars, storeVars, dedupVars, scrapeVars, processVars, runVars,
                  matchVars, adapterVars, retryVars>>
processOthers == <<keyVars, storeVars, dedupVars, scrapeVars, scoreVars, runVars,
                  matchVars, adapterVars, retryVars>>
matchOthers   == <<keyVars, storeVars, dedupVars, scrapeVars, scoreVars, processVars,
                  runVars, adapterVars, retryVars>>
adapterOthers == <<keyVars, storeVars, dedupVars, scrapeVars, scoreVars, processVars,
                  runVars, matchVars, retryVars>>
retryOthers   == <<keyVars, storeVars, dedupVars, scrapeVars, scoreVars, processVars,
                  runVars, matchVars, adapterVars>>
\* the parts no step of a run of main touches
runRest       == <<matchVars, adapterVars, retryVars>>

-----------------------------------------------------------------------------
(* Each part of the model is checked on its own; the other parts then stay *)
(* in these states.                                                        *)

RunIdle ==
    /\ run_pc = "idle" /\ no_email = FALSE
    /\ opened = [csv_rows |-> <<>>, json_jobs |-> <<>>, index |-> {}]
    /\ scraped_jobs = <<>> /\ run_new_jobs = <<>> /\ qualified_jobs = <<>>
    /\ store_next = 1 /\ stored_count = 0 /\ append_log = <<>> /\ notifications = <<>>

MatchIdle ==
    /\ resume_text = 0 /\ user_skills = {}
    /\ matched_job = [text |-> {}, skills |-> {}]
    /\ match_response = [call |-> "failed", found |-> FALSE, has |-> "other",
                         score |-> [t |-> "int", n |-> 0]]
    /\ match_result = [raises |-> FALSE, match_score |-> 0, matching_skills |-> {},
                       missing_skills |-> {}, keyword |-> FALSE]
    /\ inference_calls = 0 /\ mDone = FALSE

AdapterIdle ==
    /\ adapter = "none" /\ max_jobs = 0 /\ stage = "none" /\ limit = 0
    /\ a_pc = "idle" /\ queries_left = 0 /\ items_left = 0
    /\ stage_jobs = <<>> /\ scrape_jobs = <<>> /\ appended = <<>> /\ failed = {}
    /\ scrape_result = <<>> /\ scrape_raised = FALSE

NoException == [attempt |-> 0, kind |-> "none"]

RetryIdle ==
    /\ max_retries = 0 /\ base_delay = 0 /\ attempt = 0 /\ r_pc = "idle"
    /\ attempts_log = <<>> /\ waits = <<>> /\ last_exception = NoException
    /\ retry_result = [raised |-> FALSE, value |-> 0, exception |-> NoException]

KeyIdle == /\ kTitle = <<>> /\ kCompany = <<>> /\ kKey = <<>> /\ kStoreKey = <<>>
           /\ kAgain = <<>> /\ kBase = <<>> /\ kDone = FALSE

StoreIdle ==
    /\ files = [csv |-> FALSE, json |-> FALSE, index |-> FALSE, analytics |-> FALSE]
    /\ csv_rows = <<>> /\ json_jobs = <<>> /\ index = {} /\ analytics = 0
    /\ client = "none" /\ calls = <<>> /\ interrupted = <<>>

DedupIdle == /\ new_jobs = <<>> /\ existing_jobs = {} /\ unique_jobs = <<>>
             /\ dDone = FALSE

ScrapeIdle == /\ scraped = <<>> /\ parallel = FALSE /\ pending = {}
              /\ all_jobs = <<>> /\ seen_keys = {} /\ returned = FALSE

NoValue == [t |-> "int", n |-> 0]
NoDoc == [kind |-> "null", has |-> "empty", score |-> NoValue]
NoText == [whole |-> NoDoc, embedded |-> NoDoc, field |-> -1, number |-> 0]

ScoreIdle == /\ scored_job = [title |-> {}, description |-> {}, across |-> {}]
             /\ response = [call |-> "failed", text |-> NoText]
             /\ relevance = [raises |-> FALSE, score |-> 0]
             /\ scDone = FALSE

ProcessIdle == /\ job_list = <<>>
               /\ config = [min_relevance_score |-> 5, min_combined_score |-> 50]
               /\ doubles = [relevance |-> {}, match |-> {}]
               /\ next_job = 1
               /\ processed_jobs = <<>>
               /\ match_calls = {}
               /\ relevance_log = <<>>
               /\ match_log = <<>>
               /\ finished = FALSE

-----------------------------------------------------------------------------
(* Bounds of the model.                                                    *)

\* longest title explored by the normalisation check
MaxTitleLen == 3
\* most rows the tabular log holds before the model stops appending
MaxRows == 3
\* most postings in the batch handed to deduplicate_jobs
MaxNewJobs == 3
\* most postings one adapter returns
MaxPerSource == 2

-----------------------------------------------------------------------------
(* Python's character predicates, on the characters of the model.          *)

\* the characters an input title or company is drawn from
InputChars == {"a", "A", " ", "\t", "-", "U0130"}

\* str.isalnum(): letters and digits; a combining mark is neither
isalnum(c) == c \in {"a", "A", "i", "U0130"}

\* str.isspace()
isspace(c) == c \in {" ", "\t"}

\* str.lower() of one character: a string, since U+0130 lowers to the two
\* characters "i" + U+0307 (the only code point whose lower() is longer)
lower(c) ==
    CASE c = "A"     -> <<"a">>
      [] c = "U0130" -> <<"i", "U0307">>
      [] OTHER       -> <<c>>

\* ''.join(c.lower() for c in s if c.isalnum() or c.isspace())
RECURSIVE FilterLower(_)
FilterLower(s) ==
    IF s = <<>> THEN <<>>
    ELSE (IF isalnum(Head(s)) \/ isspace(Head(s)) THEN lower(Head(s)) ELSE <<>>)
         \o FilterLower(Tail(s))

\* str.split(): the maximal runs of non-whitespace characters, in order
RECURSIVE SplitFrom(_, _)
SplitFrom(s, word) ==
    IF s = <<>> THEN (IF word = <<>> THEN <<>> ELSE <<word>>)
    ELSE IF isspace(Head(s))
         THEN (IF word = <<>> THEN <<>> ELSE <<word>>) \o SplitFrom(Tail(s), <<>>)
         ELSE SplitFrom(Tail(s), Append(word, Head(s)))

split(s) == SplitFrom(s, <<>>)

\* ' '.join(words)
RECURSIVE join(_)
join(words) ==
    IF words = <<>> THEN <<>>
    ELSE IF Len(words) = 1 THEN Head(words)
    ELSE Head(words) \o <<" ">> \o join(Tail(words))

\* utils/helpers.py: _normalize_job_key(title, company)
normalize_job_key(title, company) ==
    join(split(FilterLower(title))) \o <<"|">> \o join(split(FilterLower(company)))

\* storage/local_storage.py: LocalStorageClient._normalize_key(title, company)
normalize_key(title, company) ==
    join(split(FilterLower(title))) \o <<"|">> \o join(split(FilterLower(company)))

\* str.split('|', 1): the text before and after the first "|"
RECURSIVE BeforeBar(_)
BeforeBar(s) ==
    IF s = <<>> \/ Head(s) = "|" THEN <<>> ELSE <<Head(s)>> \o BeforeBar(Tail(s))

RECURSIVE AfterBar(_)
AfterBar(s) ==
    IF s = <<>> THEN <<>>
    ELSE IF Head(s) = "|" THEN Tail(s) ELSE AfterBar(Tail(s))

HasBar(s) == \E i \in 1..Len(s) : s[i] = "|"

\* the (title, company) pair get_existing_jobs derives from one index key
KeyParts(key) == <<BeforeBar(key), AfterBar(key)>>

\* the store reporting no existing posting
get_existing_jobs_none(idx) == {}

\* storage/local_storage.py: get_existing_jobs, over the keys of the index
get_existing_jobs(idx) == {KeyParts(key) : key \in {k \in idx : HasBar(k)}}

-----------------------------------------------------------------------------
(* The strings the checks draw their inputs from.                          *)

RECURSIVE StringsUpTo(_)
StringsUpTo(n) ==
    IF n = 0 THEN {<<>>}
    ELSE LET shorter == StringsUpTo(n - 1)
         IN  shorter \cup {Append(s, c) : s \in {t \in shorter : Len(t) = n - 1},
                                          c \in InputChars}

Titles == StringsUpTo(MaxTitleLen)
Companies == {<<"a">>, <<"A", "-">>, <<"U0130">>}

\* the keys the two normalisation functions give (t, c), and the key of the
\* helper's key taken apart at its "|" and normalised again
Keyed(t, c) ==
    /\ kKey' = normalize_job_key(t, c)
    /\ kStoreKey' = normalize_key(t, c)
    /\ kAgain' = LET parts == KeyParts(normalize_job_key(t, c))
                 IN  normalize_job_key(parts[1], parts[2])

\* s with character c put in after its first i characters
InsertAt(s, i, c) == SubSeq(s, 1, i) \o <<c>> \o SubSeq(s, i + 1, Len(s))

SwapCase(c) == IF c = "a" THEN "A" ELSE IF c = "A" THEN "a" ELSE c

\* the key of the input is computed
NormalizeInput ==
    /\ ~kDone
    /\ Keyed(kTitle, kCompany)
    /\ kBase' = normalize_job_key(kTitle, kCompany)
    /\ kDone' = TRUE
    /\ UNCHANGED <<kTitle, kCompany, keyOthers>>

\* the title with the case of one letter changed
Recase(i) ==
    /\ kDone
    /\ kTitle[i] \in {"a", "A"}
    /\ kTitle' = [kTitle EXCEPT ![i] = SwapCase(kTitle[i])]
    /\ Keyed(kTitle', kCompany)
    /\ kBase' = kKey
    /\ UNCHANGED <<kCompany, kDone, keyOthers>>

\* the title with a punctuation character put in anywhere
Punctuate(i) ==
    /\ kDone
    /\ Len(kTitle) < MaxTitleLen
    /\ kTitle' = InsertAt(kTitle, i, "-")
    /\ Keyed(kTitle', kCompany)
    /\ kBase' = kKey
    /\ UNCHANGED <<kCompany, kDone, keyOthers>>

\* the title with a whitespace character put in at either end or next to
\* another whitespace character
Respace(i, w) ==
    /\ kDone
    /\ Len(kTitle) < MaxTitleLen
    /\ \/ i = 0
       \/ i = Len(kTitle)
       \/ (i >= 1 /\ isspace(kTitle[i]))
       \/ (i < Len(kTitle) /\ isspace(kTitle[i + 1]))
    /\ kTitle' = InsertAt(kTitle, i, w)
    /\ Keyed(kTitle', kCompany)
    /\ kBase' = kKey
    /\ UNCHANGED <<kCompany, kDone, keyOthers>>

KeyNext ==
    \/ NormalizeInput
    \/ \E i \in 1..Len(kTitle) : Recase(i)
    \/ \E i \in 0..Len(kTitle) : Punctuate(i)
    \/ \E i \in 0..Len(kTitle), w \in {" ", "\t"} : Respace(i, w)

-----------------------------------------------------------------------------
(* The store.  A posting is its (title, company) pair; the tabular log     *)
(* (jobs.csv) and the record list (jobs.json) hold postings in the order   *)
(* they were written; the index (job_index.json) is the set of its keys.   *)

JobA  == [title |-> <<"A", " ", "a">>,  company |-> <<"a">>]
JobA2 == [title |-> <<"a", "\t", "a">>, company |-> <<"A", "-">>]
JobB  == [title |-> <<"a">>,           company |-> <<"a">>]

\* the postings handed to append_job; JobA and JobA2 share one IdentityKey
Postings == {JobA, JobA2, JobB}

\* How one append_job call ends.  "none": every file operation succeeds.
\* "err_X": the first file operation on X raises (X is left as it was) and
\* the except clause of append_job, or of _update_analytics, handles it.
\* "kill_X": the process is interrupted right after X was written.
Stops == {"none", "err_csv", "err_json", "err_index", "err_analytics",
          "kill_csv", "kill_json", "kill_index"}

Killed(stop) == stop \in {"kill_csv", "kill_json", "kill_index"}

\* IdentityKey of a stored posting
KeyOf(p) == normalize_key(p.title, p.company)

\* storage/local_storage.py: job_exists(title, company), over the loaded index
job_exists(idx, title, company) == normalize_key(title, company) \in idx

\* append_job, "Append to CSV": the rows of jobs.csv after the call
CsvAfter(rows, p, stop) ==
    IF stop = "err_csv" THEN rows ELSE Append(rows, p)

\* append_job, "Append to JSON": data['jobs'] after the call
JsonAfter(jobs, p, stop) ==
    IF stop \in {"err_csv", "kill_csv", "err_json"} THEN jobs ELSE Append(jobs, p)

\* a slip in "Update index": the key is never saved
IndexAfter_unsaved(idx, p, stop) == idx

\* append_job, "Update index": the keys of the index after the call
IndexAfter(idx, p, stop) ==
    IF stop \in {"err_csv", "kill_csv", "err_json", "kill_json", "err_index"}
    THEN idx
    ELSE idx \cup {normalize_key(p.title, p.company)}

\* _update_analytics: the number of postings counted in analytics.json
AnalyticsAfter(n, stop) == IF stop = "none" THEN n + 1 ELSE n

\* the value append_job returns when it returns
AppendResult(exists, stop) == ~exists /\ stop \in {"none", "err_analytics"}

\* the last two completed append_job calls
Remember(hist, rec) ==
    IF Len(hist) = 2 THEN <<hist[2], rec>> ELSE Append(hist, rec)

StoreInit ==
    /\ files = [csv |-> FALSE, json |-> FALSE, index |-> FALSE, analytics |-> FALSE]
    /\ csv_rows = <<>>
    /\ json_jobs = <<>>
    /\ index = {}
    /\ analytics = 0
    /\ client = "none"
    /\ calls = <<>>
    /\ interrupted = <<>>

\* LocalStorageClient.__init__ and _ensure_files_exist: a missing file is
\* created with its default content, an existing file is left as it is
Open ==
    /\ client # "open"
    /\ client' = "open"
    /\ files' = [csv |-> TRUE, json |-> TRUE, index |-> TRUE, analytics |-> TRUE]
    /\ csv_rows' = IF files.csv THEN csv_rows ELSE <<>>
    /\ json_jobs' = IF files.json THEN json_jobs ELSE <<>>
    /\ index' = IF files.index THEN index ELSE {}
    /\ analytics' = IF files.analytics THEN analytics ELSE 0
    /\ interrupted' = IF interrupted # <<>> /\ interrupted[1].phase = "down"
                      THEN <<[interrupted[1] EXCEPT !.phase = "reopened"]>>
                      ELSE interrupted
    /\ UNCHANGED <<calls, storeOthers>>

\* the run ends: the process exits and the files stay
Close ==
    /\ client = "open"
    /\ client' = "closed"
    /\ UNCHANGED <<files, csv_rows, json_jobs, index, analytics, calls, interrupted>>
    /\ UNCHANGED storeOthers

\* LocalStorageClient.append_job(format_job_for_storage(p), p)
AppendJob(p, stop) ==
    /\ client = "open"
    /\ Len(csv_rows) < MaxRows
    /\ LET exists == job_exists(index, p.title, p.company)
           how    == IF exists THEN "none" ELSE stop
       IN  /\ (exists => stop = "none")
           /\ csv_rows'  = IF exists THEN csv_rows ELSE CsvAfter(csv_rows, p, how)
           /\ json_jobs' = IF exists THEN json_jobs ELSE JsonAfter(json_jobs, p, how)
           /\ index'     = IF exists THEN index ELSE IndexAfter(index, p, how)
           /\ analytics' = IF exists THEN analytics ELSE AnalyticsAfter(analytics, how)
           /\ client'    = IF Killed(how) THEN "dead" ELSE "open"
           /\ calls' = IF Killed(how) THEN <<>>
                       ELSE Remember(calls,
                                [job |-> p, ret |-> AppendResult(exists, how),
                                 stop |-> how, indexed |-> KeyOf(p) \in index,
                                 before |-> Len(json_jobs), after |-> Len(json_jobs')])
           /\ interrupted' =
                IF Killed(how) THEN <<[job |-> p, phase |-> "down"]>>
                ELSE IF /\ interrupted # <<>>
                        /\ interrupted[1].phase = "reopened"
                        /\ interrupted[1].job = p
                        /\ how = "none"
                     THEN <<[job |-> p, phase |-> "retried"]>>
                     ELSE IF interrupted # <<>> /\ interrupted[1].phase = "retried"
                          THEN <<>>
                          ELSE interrupted
    /\ UNCHANGED <<files, storeOthers>>

StoreNext ==
    \/ Open
    \/ Close
    \/ \E p \in Postings, stop \in Stops : AppendJob(p, stop)

\* The store over any number of runs: opened, appended to, closed or
\* interrupted, and opened again.
Init ==
    StoreInit /\ KeyIdle /\ DedupIdle /\ ScrapeIdle /\ ScoreIdle /\ ProcessIdle /\ RunIdle
    /\ MatchIdle /\ AdapterIdle /\ RetryIdle

Spec == Init /\ [][StoreNext]_vars

-----------------------------------------------------------------------------
(* deduplicate_jobs (utils/helpers.py).                                    *)

JobA3 == [title |-> <<"A", " ", "-", " ", "a">>, company |-> <<"a">>]
JobC  == [title |-> <<"-">>, company |-> <<"a">>]

RECURSIVE SeqsUpTo(_, _)
SeqsUpTo(S, n) ==
    IF n = 0 THEN {<<>>}
    ELSE LET shorter == SeqsUpTo(S, n - 1)
         IN  shorter \cup {Append(s, x) : s \in {t \in shorter : Len(t) = n - 1},
                                          x \in S}

\* the postings of a scraped batch: JobA and JobA2 share a key
BatchPostings == {JobA, JobA2, JobB, JobC}

\* the (title, company) pairs the store may hand over
ExistingPairs == {<<<<"a", " ", "a">>, <<"a">>>>, <<<<"A">>, <<"a", "-">>>>,
                  <<<<>>, <<"a">>>>}

\* the first loop of deduplicate_jobs: the keys of the existing pairs
ExistingKeys(existing) == {normalize_job_key(e[1], e[2]) : e \in existing}

\* a slip in the second loop: the posting is not checked against the batch
RECURSIVE DedupLoop_noseen(_, _, _, _)
DedupLoop_noseen(jobs, existing_keys, seen_in_batch, unique) ==
    IF jobs = <<>> THEN unique
    ELSE LET job == Head(jobs)
             key == normalize_job_key(job.title, job.company)
         IN  IF key \notin existing_keys
             THEN DedupLoop_noseen(Tail(jobs), existing_keys,
                                   seen_in_batch \cup {key}, Append(unique, job))
             ELSE DedupLoop_noseen(Tail(jobs), existing_keys, seen_in_batch, unique)

\* the second loop of deduplicate_jobs, from the state (seen_in_batch,
\* unique_jobs) over the postings still to visit
RECURSIVE DedupLoop(_, _, _, _)
DedupLoop(jobs, existing_keys, seen_in_batch, unique) ==
    IF jobs = <<>> THEN unique
    ELSE LET job == Head(jobs)
             key == normalize_job_key(job.title, job.company)
         IN  IF key \notin existing_keys /\ key \notin seen_in_batch
             THEN DedupLoop(Tail(jobs), existing_keys,
                            seen_in_batch \cup {key}, Append(unique, job))
             ELSE DedupLoop(Tail(jobs), existing_keys, seen_in_batch, unique)

\* the batch loop without its record of the keys already seen in the batch
deduplicate_jobs_noseen(jobs, existing) ==
    DedupLoop_noseen(jobs, ExistingKeys(existing), {}, <<>>)

\* utils/helpers.py: deduplicate_jobs(new_jobs, existing_jobs)
deduplicate_jobs(jobs, existing) ==
    DedupLoop(jobs, ExistingKeys(existing), {}, <<>>)

InitDedup ==
    /\ new_jobs \in SeqsUpTo(BatchPostings, MaxNewJobs)
    /\ existing_jobs \in SUBSET ExistingPairs
    /\ unique_jobs = <<>>
    /\ dDone = FALSE
    /\ KeyIdle /\ StoreIdle /\ ScrapeIdle /\ ScoreIdle /\ ProcessIdle /\ RunIdle
    /\ MatchIdle /\ AdapterIdle /\ RetryIdle

Deduplicate ==
    /\ ~dDone
    /\ unique_jobs' = deduplicate_jobs(new_jobs, existing_jobs)
    /\ dDone' = TRUE
    /\ UNCHANGED <<new_jobs, existing_jobs, dedupOthers>>

SpecDedup == InitDedup /\ [][Deduplicate]_vars

\* the postings of jobs at the positions of keep, in order
RECURSIVE AtPositions(_, _, _)
AtPositions(jobs, keep, i) ==
    IF i > Len(jobs) THEN <<>>
    ELSE (IF i \in keep THEN <<jobs[i]>> ELSE <<>>) \o AtPositions(jobs, keep, i + 1)

IdentityKey(job) == normalize_job_key(job.title, job.company)

\* the positions of the first occurrence of each key that no existing pair has
FirstNewPositions ==
    {i \in 1..Len(new_jobs) :
        /\ \A e \in existing_jobs : IdentityKey(new_jobs[i]) # normalize_job_key(e[1], e[2])
        /\ \A j \in 1..(i - 1) : IdentityKey(new_jobs[j]) # IdentityKey(new_jobs[i])}

\* C5: deduplicate_jobs never returns a posting whose key is the key of an
\* existing pair, never drops a posting whose key is unique in the batch and
\* absent from existing, and returns the subsequence of the batch made of the
\* first occurrence of each remaining key.
C5_DedupPureFilter ==
    dDone =>
        /\ \A i \in 1..Len(unique_jobs), e \in existing_jobs :
               IdentityKey(unique_jobs[i]) # normalize_job_key(e[1], e[2])
        /\ \A i \in 1..Len(new_jobs) :
               ( /\ \A j \in 1..Len(new_jobs) :
                        j # i => IdentityKey(new_jobs[j]) # IdentityKey(new_jobs[i])
                 /\ \A e \in existing_jobs :
                        IdentityKey(new_jobs[i]) # normalize_job_key(e[1], e[2]) )
               => \E k \in 1..Len(unique_jobs) : unique_jobs[k] = new_jobs[i]
        /\ unique_jobs = AtPositions(new_jobs, FirstNewPositions, 1)

\* a batch with a repeated key and a key the store has went through
C5_Witness ==
    /\ dDone
    /\ Len(unique_jobs) >= 1
    /\ Len(unique_jobs) + 2 <= Len(new_jobs)
    /\ \E i \in 1..Len(new_jobs), e \in existing_jobs :
           IdentityKey(new_jobs[i]) = normalize_job_key(e[1], e[2])
    /\ \E i, j \in 1..Len(new_jobs) :
           /\ i < j
           /\ new_jobs[i] # new_jobs[j]
           /\ IdentityKey(new_jobs[i]) = IdentityKey(new_jobs[j])
           /\ \E k \in 1..Len(unique_jobs) : unique_jobs[k] = new_jobs[i]

-----------------------------------------------------------------------------
(* JobScraperManager.scrape_all (scrapers/__init__.py).                    *)

\* the enabled sources, in the order of self.scrapers
SourceOrder == <<"remoteok", "jobicy">>
Sources == {SourceOrder[i] : i \in 1..Len(SourceOrder)}

\* JobA as another adapter writes it: the same _job_key, another instance
JobA4 == [title |-> <<"a", " ", "a">>, company |-> <<"a">>]

\* what adapters return: JobA, JobA3 and JobA4 share one IdentityKey
ScrapePostings == {JobA, JobA3, JobA4, JobB}

\* one adapter's scrape: it raises, or returns a list of postings
\* (jobs of a raising scrape: what it had collected when it raised)
AdapterOutcomes ==
    {[raises |-> TRUE, jobs |-> js] : js \in {<<>>, <<JobB>>, <<JobA4, JobB>>}}
    \cup {[raises |-> FALSE, jobs |-> js] : js \in SeqsUpTo(ScrapePostings, MaxPerSource)}

\* str.lower() of a whole string
RECURSIVE LowerStr(_)
LowerStr(s) == IF s = <<>> THEN <<>> ELSE lower(Head(s)) \o LowerStr(Tail(s))

\* str.strip(): without its leading and trailing whitespace
RECURSIVE LStrip(_)
LStrip(s) == IF s # <<>> /\ isspace(Head(s)) THEN LStrip(Tail(s)) ELSE s

RECURSIVE RStrip(_)
RStrip(s) ==
    IF s # <<>> /\ isspace(s[Len(s)]) THEN RStrip(SubSeq(s, 1, Len(s) - 1)) ELSE s

strip(s) == RStrip(LStrip(s))

\* ''.join(c for c in s if c.isalnum() or c.isspace())
RECURSIVE KeepAlnumSpace(_)
KeepAlnumSpace(s) ==
    IF s = <<>> THEN <<>>
    ELSE (IF isalnum(Head(s)) \/ isspace(Head(s)) THEN <<Head(s)>> ELSE <<>>)
         \o KeepAlnumSpace(Tail(s))

\* scrapers/__init__.py: JobScraperManager._job_key(job)
job_key(job) ==
    KeepAlnumSpace(strip(LowerStr(job.title))) \o <<"|">>
        \o KeepAlnumSpace(strip(LowerStr(job.company)))

\* scrape_source without its try: what a raising scrape had collected comes
\* through
scrape_source_partial(outcome) == outcome.jobs

\* scrape_source: what one source contributes; a raising adapter is caught
scrape_source(outcome) == IF outcome.raises THEN <<>> ELSE outcome.jobs

\* the inner loop leaving a source's list at the first key already seen
RECURSIVE Merge_break(_, _, _)
Merge_break(jobs, all, seen) ==
    IF jobs = <<>> THEN [all |-> all, seen |-> seen]
    ELSE LET key == job_key(Head(jobs))
         IN  IF key \notin seen
             THEN Merge_break(Tail(jobs), Append(all, Head(jobs)), seen \cup {key})
             ELSE [all |-> all, seen |-> seen]

\* the inner loop of scrape_all: the jobs of one source merged into
\* (all_jobs, seen_keys)
RECURSIVE Merge(_, _, _)
Merge(jobs, all, seen) ==
    IF jobs = <<>> THEN [all |-> all, seen |-> seen]
    ELSE LET key == job_key(Head(jobs))
         IN  IF key \notin seen
             THEN Merge(Tail(jobs), Append(all, Head(jobs)), seen \cup {key})
             ELSE Merge(Tail(jobs), all, seen)

\* scrape_all(parallel) is entered: nothing merged yet
InitScrape ==
    /\ scraped \in [Sources -> AdapterOutcomes]
    /\ parallel \in BOOLEAN
    /\ pending = Sources
    /\ all_jobs = <<>>
    /\ seen_keys = {}
    /\ returned = FALSE
    /\ KeyIdle /\ StoreIdle /\ DedupIdle /\ ScoreIdle /\ ProcessIdle /\ RunIdle
    /\ MatchIdle /\ AdapterIdle /\ RetryIdle

MergeSource(src) ==
    /\ all_jobs' = Merge(scrape_source(scraped[src]), all_jobs, seen_keys).all
    /\ seen_keys' = Merge(scrape_source(scraped[src]), all_jobs, seen_keys).seen
    /\ pending' = pending \ {src}
    /\ UNCHANGED <<scraped, parallel, returned, scrapeOthers>>

\* sequential scraping: the next source of self.scrapers, in order
ScrapeSequential ==
    /\ ~(parallel /\ Cardinality(Sources) > 1)
    /\ \E i \in 1..Len(SourceOrder) :
          /\ SourceOrder[i] \in pending
          /\ \A j \in 1..(i - 1) : SourceOrder[j] \notin pending
          /\ MergeSource(SourceOrder[i])

\* parallel scraping: the sources are merged in the order they complete
ScrapeCompleted(src) ==
    /\ parallel /\ Cardinality(Sources) > 1
    /\ src \in pending
    /\ MergeSource(src)

\* scrape_all returns all_jobs
ScrapeReturn ==
    /\ pending = {}
    /\ ~returned
    /\ returned' = TRUE
    /\ UNCHANGED <<scraped, parallel, pending, all_jobs, seen_keys, scrapeOthers>>

ScrapeNext ==
    \/ ScrapeSequential
    \/ \E src \in Sources : ScrapeCompleted(src)
    \/ ScrapeReturn

SpecScrape == InitScrape /\ [][ScrapeNext]_vars

\* the entries of all_jobs with the title and company of posting p
EntriesLike(p) ==
    {i \in 1..Len(all_jobs) :
        all_jobs[i].title = p.title /\ all_jobs[i].company = p.company}

\* the postings some adapter returned
Scraped ==
    UNION {{scrape_source(scraped[src])[k] : k \in 1..Len(scrape_source(scraped[src]))}
              : src \in Sources}

\* C10 as stated: the list scrape_all returns never holds two postings with
\* the same IdentityKey, whatever the adapters return; when two adapters
\* return the same title and company, exactly one entry remains.
C10_NoTwoWithSameIdentityKey ==
    returned =>
        /\ \A i, j \in 1..Len(all_jobs) :
              i # j => IdentityKey(all_jobs[i]) # IdentityKey(all_jobs[j])
        /\ \A p \in Scraped : Cardinality(EntriesLike(p)) = 1

\* the orders in which the sources can be merged: the order of self.scrapers
\* when sequential, any order of completion when parallel
MergeOrders ==
    IF parallel /\ Cardinality(Sources) > 1
    THEN {o \in [1..Len(SourceOrder) -> Sources] :
             \A i, j \in 1..Len(SourceOrder) : i # j => o[i] # o[j]}
    ELSE {SourceOrder}

\* the outputs of the adapters that did not raise, one after the other
RECURSIVE OutputsInOrder(_)
OutputsInOrder(order) ==
    IF order = <<>> THEN <<>>
    ELSE (IF scraped[Head(order)].raises THEN <<>> ELSE scraped[Head(order)].jobs)
         \o OutputsInOrder(Tail(order))

\* a list without every posting whose batch key an earlier posting has
BatchDeduplicated(js) ==
    AtPositions(js,
                {i \in 1..Len(js) :
                    \A j \in 1..(i - 1) : job_key(js[j]) # job_key(js[i])},
                1)

\* the sources merged so far, in an order in which they can have been merged
MergedSoFar ==
    {SubSeq(order, 1, Cardinality(Sources \ pending)) : order \in
        {o \in MergeOrders :
            \A i \in 1..Len(o) : (i <= Cardinality(Sources \ pending)) = (o[i] \notin pending)}}

\* C11: whichever adapters raise, every source is visited and scrape_all
\* returns, and at every point what it has collected, and in the end
\* returns, is the batch-deduplicated merge of the outputs of the adapters
\* that did not raise, in the order the sources were merged: an adapter that
\* raised contributes nothing.
C11_FailedAdapterContributesNothing ==
    /\ \E order \in MergedSoFar : all_jobs = BatchDeduplicated(OutputsInOrder(order))
    /\ returned => pending = {}

\* scrape_all returned postings although an adapter raised after it had
\* collected some
C11_Witness ==
    /\ returned
    /\ all_jobs # <<>>
    /\ \E src \in Sources : scraped[src].raises /\ scraped[src].jobs # <<>>

\* the batch keys of a list of postings
BatchKeys(js) == {job_key(js[i]) : i \in 1..Len(js)}

\* C12: for the same adapter outputs, the postings scrape_all returns have the
\* batch keys the sequential merge gives, in parallel as in sequential mode
\* and for every order of completion.
C12_SameKeysInEitherMode ==
    returned =>
        BatchKeys(all_jobs) = BatchKeys(BatchDeduplicated(OutputsInOrder(SourceOrder)))

\* a parallel scrape returned other instances than the sequential merge keeps
C12_Witness ==
    /\ returned
    /\ parallel
    /\ BatchKeys(all_jobs) # {}
    /\ \E i \in 1..Len(all_jobs) :
          \A k \in 1..Len(BatchDeduplicated(OutputsInOrder(SourceOrder))) :
              BatchDeduplicated(OutputsInOrder(SourceOrder))[k] # all_jobs[i]

-----------------------------------------------------------------------------
(* EnhancedJobScorer (llm/job_scorer.py).                                  *)
(*                                                                         *)
(* A JSON document, as json.loads returns it, is [kind, has, score]:       *)
(*   kind  "object", "number", "string", "array", "true", "false", "null"  *)
(*         (Python's None), or "notjson" when json.loads raises            *)
(*         JSONDecodeError;                                                *)
(*   has   "empty" ({}, 0, "", []), "score" (an object with the key        *)
(*         "score", a string containing "score", an array with the element *)
(*         "score") or "other";                                            *)
(*   score the value under the key "score", [t, n]: t its type and n the   *)
(*         integer int() gives when it gives one.                          *)

Tiers == {"high", "medium", "low"}

\* the value of "score": an integer, a finite float (n its truncation), NaN or
\* Infinity, a string of digits, another string, null, a boolean or a list
ScoreValues ==
    {[t |-> "int", n |-> k] : k \in {-3, 0, 1, 7, 10, 15}}
    \cup {[t |-> "float", n |-> 7], [t |-> "nan", n |-> 0],
          [t |-> "numstr", n |-> 8], [t |-> "str", n |-> 0],
          [t |-> "null", n |-> 0], [t |-> "bool", n |-> 1],
          [t |-> "list", n |-> 0]}

Objects ==
    {[kind |-> "object", has |-> h, score |-> NoValue] : h \in {"empty", "other"}}
    \cup {[kind |-> "object", has |-> "score", score |-> v] : v \in ScoreValues}

\* what json.loads gives for a response that is JSON
JsonDocs ==
    Objects
    \cup {[kind |-> k, has |-> h, score |-> NoValue] :
             k \in {"string", "array"}, h \in {"empty", "score", "other"}}
    \cup {[kind |-> "number", has |-> h, score |-> NoValue] : h \in {"empty", "other"}}
    \cup {[kind |-> "true", has |-> "other", score |-> NoValue],
          [kind |-> "false", has |-> "empty", score |-> NoValue],
          NoDoc}

NotJson == [kind |-> "notjson", has |-> "empty", score |-> NoValue]
NoMatch == [kind |-> "nomatch", has |-> "empty", score |-> NoValue]

\* A response text, by what the four strategies of _parse_llm_response find
\* in it: json.loads of the whole text; json.loads of the first {...} holding
\* "score": digits ("nomatch" when the regex finds none); the digits after the
\* first "score": (-1 when there are none); the first 1-10 token (0: none).
Texts ==
    {[whole |-> d, embedded |-> NoMatch, field |-> -1, number |-> 0] : d \in JsonDocs}
    \cup {[whole |-> NotJson, embedded |-> NoMatch, field |-> f, number |-> n] :
             f \in {-1, 0, 7, 999}, n \in {0, 3, 10}}
    \cup {[whole |-> NotJson, embedded |-> e, field |-> f, number |-> n] :
             e \in Objects \cup {NotJson}, f \in {7, 999}, n \in {0, 7}}

\* what _call_ollama comes back with: None after a failure or a timeout, the
\* stripped output otherwise
Responses ==
    {[call |-> c, text |-> NoText] : c \in {"failed", "timeout", "empty"}}
    \cup {[call |-> "text", text |-> t] : t \in Texts}

\* the postings scored, by the keyword tiers found in the lower-cased title,
\* in the lower-cased description, and only across the blank that joins the
\* two ("machine learning" + " " + "engineer wanted", "ml" + " " + "team")
ScoredJobs ==
    {[title |-> t, description |-> d, across |-> a] :
        t \in SUBSET Tiers, d \in {{}, {"high"}, {"low"}}, a \in {{}, {"high"}, {"medium"}}}

ExtractedScore(n) == [kind |-> "object", has |-> "score", score |-> [t |-> "int", n |-> n]]

\* _parse_llm_response(response), for a non-empty response
parse_llm_response(text) ==
    IF text.whole.kind # "notjson" THEN text.whole
    ELSE IF text.embedded.kind \notin {"nomatch", "notjson"} THEN text.embedded
    ELSE IF text.field >= 0 THEN ExtractedScore(text.field)
    ELSE IF text.number > 0 THEN ExtractedScore(text.number)
    ELSE NoDoc

\* _fallback_score(job): the tiers are looked for in title + " " + description
fallback_score_low_first(job) ==
    LET combined == job.title \cup job.description \cup job.across
    IN  IF "low" \in combined THEN 5
        ELSE IF "medium" \in combined THEN 7
        ELSE IF "high" \in combined THEN 9
        ELSE 3
fallback_score(job) ==
    LET combined == job.title \cup job.description \cup job.across
    IN  IF "high" \in combined THEN 9
        ELSE IF "medium" \in combined THEN 7
        ELSE IF "low" \in combined THEN 5
        ELSE 3

\* bool(result)
Truthy(doc) ==
    CASE doc.kind \in {"object", "number", "string", "array"} -> doc.has # "empty"
      [] doc.kind = "true" -> TRUE
      [] OTHER -> FALSE

\* 'score' in result raises TypeError on a number and on a boolean
InRaises(doc) == doc.kind \in {"number", "true"}

\* result['score'] raises TypeError on a string and on a list
SubscriptRaises(doc) == doc.kind \in {"string", "array"}

\* int(value) raises on NaN and Infinity, on a non-numeric string, on None and
\* on a list
IntRaises(v) == v.t \in {"nan", "str", "null", "list"}

Max(a, b) == IF a >= b THEN a ELSE b
Min(a, b) == IF a <= b THEN a ELSE b

Raised == [raises |-> TRUE, score |-> 0]
Returned(n) == [raises |-> FALSE, score |-> n]

\* score_relevance(job), given what _call_ollama comes back with
score_relevance(job, resp) ==
    IF resp.call = "text"
    THEN LET result == parse_llm_response(resp.text)
         IN  IF ~Truthy(result) THEN Returned(fallback_score(job))
             ELSE IF InRaises(result) THEN Raised
             ELSE IF result.has # "score" THEN Returned(fallback_score(job))
             ELSE IF SubscriptRaises(result) THEN Raised
             ELSE IF IntRaises(result.score) THEN Raised
             ELSE Returned(Max(1, Min(10, result.score.n)))
    ELSE Returned(fallback_score(job))

InitScore ==
    /\ scored_job \in ScoredJobs
    /\ response \in Responses
    /\ relevance = [raises |-> FALSE, score |-> 0]
    /\ scDone = FALSE
    /\ KeyIdle /\ StoreIdle /\ DedupIdle /\ ScrapeIdle /\ ProcessIdle /\ RunIdle
    /\ MatchIdle /\ AdapterIdle /\ RetryIdle

ScoreRelevance ==
    /\ ~scDone
    /\ relevance' = score_relevance(scored_job, response)
    /\ scDone' = TRUE
    /\ UNCHANGED <<scored_job, response, scoreOthers>>

SpecScore == InitScore /\ [][ScoreRelevance]_vars

\* C6 as stated: for every inference outcome score_relevance returns an integer
\* in [1,10] and does not raise.
C6_RelevanceInRangeNeverRaises ==
    scDone => (~relevance.raises /\ relevance.score \in 1..10)

-----------------------------------------------------------------------------
(* process_jobs_with_ai (main.py).  Scores are held in tenths (72 is 7.2); *)
(* the float relevance*0.4 + match*0.6 is held in units of 0.0001.         *)

\* most postings in the batch handed to process_jobs_with_ai
MaxBatch == 2

\* (relevance, match) for which the IEEE double relevance*0.4 + match*0.6 is
\* just below the exact sum: 1*0.4 + 6*0.6 is 3.9999999999999996
FloatBelow == {<<1, 3>>, <<1, 6>>, <<2, 3>>, <<2, 6>>, <<2, 9>>, <<4, 6>>,
               <<5, 9>>, <<9, 6>>, <<10, 9>>}

\* ... and just above it: 1*0.4 + 7*0.6 is 4.6000000000000005
FloatAbove == {<<1, 7>>, <<3, 1>>, <<3, 2>>, <<4, 7>>, <<6, 1>>, <<6, 2>>,
               <<6, 4>>, <<6, 7>>, <<7, 1>>, <<7, 5>>, <<8, 1>>, <<9, 7>>}

\* the weights swapped: relevance*0.6 + match*0.4
CombinedFloat_swapped(r, m) == (6 * r + 4 * m) * 1000

\* combined_score = (relevance_score * 0.4) + (match_score * 0.6)
CombinedFloat(r, m) ==
    (4 * r + 6 * m) * 1000
        + (IF <<r, m>> \in FloatBelow THEN -1 ELSE IF <<r, m>> \in FloatAbove THEN 1 ELSE 0)

\* round(x, 1), in tenths
Round1(x) == (x + 500) \div 1000

\* round(x)
Round0(x) == (x + 5000) \div 10000

\* the posting's dict has no such key yet
NoSkills == <<"absent">>

\* the skill lists in the result of the matcher double
MatchedSkills == [matching_skills |-> <<"python">>, missing_skills |-> <<"docker">>]

\* a posting before it is scored: id tells the postings apart, keyword says
\* whether its lowercased title holds one of 'machine learning', 'ai ', 'ml ',
\* 'data scientist'
Unscored(i, kw) ==
    [id |-> i, keyword |-> kw, scored |-> "no", relevance_score |-> 0,
     match_score |-> 0, combined_score |-> 0, ai_score |-> 0,
     matching_skills |-> NoSkills, missing_skills |-> NoSkills]

\* the loop body, steps 1 to 3: the scores written to the posting
Scored(job, r, m) ==
    [job EXCEPT !.scored = "scored",
                !.relevance_score = r,
                !.match_score = m,
                !.combined_score = Round1(CombinedFloat(r, m)),
                !.matching_skills = MatchedSkills.matching_skills,
                !.missing_skills = MatchedSkills.missing_skills,
                !.ai_score = Round0(CombinedFloat(r, m))]

\* the except clause leaving the posting's fields as they are
FallbackScored_unset(job) == [job EXCEPT !.scored = "fallback"]

\* the except clause: the fixed scores of the keyword fallback
FallbackScored(job) ==
    [job EXCEPT !.scored = "fallback",
                !.relevance_score = 7,
                !.match_score = 5,
                !.combined_score = 60,
                !.ai_score = 6,
                !.matching_skills = <<>>,
                !.missing_skills = <<>>]

\* the short-circuit taken at the threshold too
BelowThreshold_inclusive(r, cfg) == r <= cfg.min_relevance_score

\* if relevance_score < config.min_relevance_score: continue
BelowThreshold(r, cfg) == r < cfg.min_relevance_score

\* One pass of the loop body over job, given what scorer.score_relevance and
\* resume_matcher.match_job do when called: whether match_job was called, the
\* posting as the pass leaves it (its dict is written in place), and whether
\* it was appended to processed_jobs.
ProcessOne(job, rel, mat, cfg) ==
    LET fallback == [matched |-> FALSE,
                     job |-> IF job.keyword THEN FallbackScored(job) ELSE job,
                     kept |-> job.keyword]
    IN  IF rel.raises
        THEN fallback
        ELSE IF BelowThreshold(rel.score, cfg)
        THEN [matched |-> FALSE, job |-> job, kept |-> FALSE]
        ELSE IF mat.raises
        THEN [fallback EXCEPT !.matched = TRUE]
        ELSE [matched |-> TRUE,
              job |-> Scored(job, rel.score, mat.score),
              kept |-> CombinedFloat(rel.score, mat.score)
                           >= cfg.min_combined_score * 1000]

\* what resume_matcher.match_job did in that pass: not called, raised, or
\* returned a score
MatchOutcome(job, rel, mat, cfg) ==
    [called |-> ProcessOne(job, rel, mat, cfg).matched,
     raises |-> ProcessOne(job, rel, mat, cfg).matched /\ mat.raises,
     score  |-> IF ProcessOne(job, rel, mat, cfg).matched THEN mat.score ELSE 0]

\* the sort putting a posting before the postings of equal score
RECURSIVE InsertByScore_before(_, _)
InsertByScore_before(sorted, job) ==
    IF sorted = <<>> THEN <<job>>
    ELSE IF Head(sorted).combined_score > job.combined_score
         THEN <<Head(sorted)>> \o InsertByScore_before(Tail(sorted), job)
         ELSE <<job>> \o sorted

\* list.sort(key=combined_score, reverse=True): stable, largest first
RECURSIVE InsertByScore(_, _)
InsertByScore(sorted, job) ==
    IF sorted = <<>> THEN <<job>>
    ELSE IF Head(sorted).combined_score >= job.combined_score
         THEN <<Head(sorted)>> \o InsertByScore(Tail(sorted), job)
         ELSE <<job>> \o sorted

RECURSIVE SortByScore(_)
SortByScore(js) ==
    IF js = <<>> THEN <<>>
    ELSE InsertByScore(SortByScore(SubSeq(js, 1, Len(js) - 1)), js[Len(js)])

Outcomes(scores) ==
    {Raised} \cup {Returned(n) : n \in scores}

Batches ==
    UNION {[1..n -> BOOLEAN] : n \in 1..MaxBatch}

Configs ==
    {[min_relevance_score |-> r, min_combined_score |-> c] : r \in {5, 8}, c \in {50, 65}}

ProcessStart ==
    /\ next_job = 1
    /\ processed_jobs = <<>>
    /\ match_calls = {}
    /\ relevance_log = <<>>
    /\ match_log = <<>>
    /\ finished = FALSE
    /\ KeyIdle /\ StoreIdle /\ DedupIdle /\ ScrapeIdle /\ ScoreIdle /\ RunIdle
    /\ MatchIdle /\ AdapterIdle /\ RetryIdle

\* process_jobs_with_ai is entered with a batch; the scorer and the matcher
\* are doubles returning the scores named in doubles, or raising
InitProcess ==
    /\ \E flags \in Batches :
          job_list = [i \in 1..Len(flags) |-> Unscored(i, flags[i])]
    /\ config \in Configs
    /\ doubles = [relevance |-> {4, 5, 8}, match |-> {3, 6, 10}]
    /\ ProcessStart

\* ... with one posting, and doubles returning every score of 1..10
InitCombine ==
    /\ \E kw \in BOOLEAN : job_list = <<Unscored(1, kw)>>
    /\ config \in Configs
    /\ doubles = [relevance |-> 1..10, match |-> 1..10]
    /\ ProcessStart

\* one iteration of "for i, job in enumerate(jobs)"
ProcessPosting(rel, mat) ==
    /\ ~finished
    /\ next_job <= Len(job_list)
    /\ LET step == ProcessOne(job_list[next_job], rel, mat, config)
       IN  /\ job_list' = [job_list EXCEPT ![next_job] = step.job]
           /\ processed_jobs' = IF step.kept THEN Append(processed_jobs, step.job)
                                 ELSE processed_jobs
           /\ match_calls' = IF step.matched THEN match_calls \cup {next_job}
                             ELSE match_calls
    /\ relevance_log' = Append(relevance_log, rel)
    /\ match_log' = Append(match_log, MatchOutcome(job_list[next_job], rel, mat, config))
    /\ next_job' = next_job + 1
    /\ UNCHANGED <<config, doubles, finished, processOthers>>

\* the loop is over: processed_jobs is sorted and returned
ProcessReturn ==
    /\ ~finished
    /\ next_job > Len(job_list)
    /\ processed_jobs' = SortByScore(processed_jobs)
    /\ finished' = TRUE
    /\ UNCHANGED <<job_list, config, doubles, next_job, match_calls, relevance_log,
                   match_log, processOthers>>

ProcessNext ==
    \/ \E rel \in Outcomes(doubles.relevance), mat \in Outcomes(doubles.match) :
          ProcessPosting(rel, mat)
    \/ ProcessReturn

SpecProcess == InitProcess /\ [][ProcessNext]_vars

SpecCombine == InitCombine /\ [][ProcessNext]_vars

\* the postings the scorer gave a relevance to
Visited == 1..Len(relevance_log)

Kept(i) == \E k \in 1..Len(processed_jobs) : processed_jobs[k].id = i

\* C7: for every posting whose relevance score is below
\* config.min_relevance_score, match_job is never invoked and the posting is
\* not in the returned list; a posting whose relevance equals the minimum is
\* not discarded by this check (match_job is invoked for it).
C7_ShortCircuitBelowMinimum ==
    \A i \in Visited :
        ~relevance_log[i].raises =>
            /\ relevance_log[i].score < config.min_relevance_score
                  => (i \notin match_calls /\ ~Kept(i))
            /\ relevance_log[i].score = config.min_relevance_score
                  => i \in match_calls

\* the batch was returned after one posting fell below the minimum and
\* another met it exactly
C7_Witness ==
    /\ finished
    /\ \E i, j \in Visited :
          /\ ~relevance_log[i].raises /\ ~relevance_log[j].raises
          /\ relevance_log[i].score < config.min_relevance_score
          /\ relevance_log[j].score = config.min_relevance_score
          /\ Kept(j)

\* C8 as stated: the stored combined_score is relevance*0.4 + match*0.6
\* rounded to one decimal, relevance 8 and match 6 give 7.2, and the score
\* lies in [1,10].
C8_CombinedAsStated ==
    \A k \in 1..Len(job_list) :
        LET job == job_list[k]
        IN  job.scored = "scored" =>
               /\ job.combined_score = 4 * job.relevance_score + 6 * job.match_score
               /\ (job.relevance_score = 8 /\ job.match_score = 6)
                     => job.combined_score = 72
               /\ job.combined_score \in 10..100

\* C8, amended: the stored combined_score is relevance*0.4 + match*0.6 rounded
\* to one decimal, relevance 8 and match 6 give 6.8, and the score lies in
\* [1,10].
C8_Combined ==
    \A k \in 1..Len(job_list) :
        LET job == job_list[k]
        IN  job.scored = "scored" =>
               /\ job.combined_score = 4 * job.relevance_score + 6 * job.match_score
               /\ (job.relevance_score = 8 /\ job.match_score = 6)
                     => job.combined_score = 68
               /\ job.combined_score \in 10..100

\* the posting with relevance 8 and match 6 was scored and returned
C8_Witness ==
    /\ finished
    /\ \E k \in 1..Len(processed_jobs) :
          /\ processed_jobs[k].scored = "scored"
          /\ processed_jobs[k].relevance_score = 8
          /\ processed_jobs[k].match_score = 6
          /\ processed_jobs[k].ai_score = 7

\* C16 as stated: every posting process_jobs_with_ai returns has a
\* combined_score of at least config.min_combined_score and a relevance score
\* of at least config.min_relevance_score, whatever the thresholds, the
\* postings that went through the error fallback included.
C16_ReturnedMeetThresholds ==
    finished =>
        \A k \in 1..Len(processed_jobs) :
            /\ processed_jobs[k].combined_score >= config.min_combined_score
            /\ processed_jobs[k].relevance_score >= config.min_relevance_score

\* C17: the list process_jobs_with_ai returns is in non-increasing order of
\* combined_score, and postings of equal combined_score are in the order in
\* which they were processed.
C17_SortedStable ==
    finished =>
        \A i, j \in 1..Len(processed_jobs) :
            i < j =>
                /\ processed_jobs[i].combined_score >= processed_jobs[j].combined_score
                /\ processed_jobs[i].combined_score = processed_jobs[j].combined_score
                      => processed_jobs[i].id < processed_jobs[j].id

\* two postings of equal combined_score were returned
C17_Witness ==
    /\ finished
    /\ Len(processed_jobs) = 2
    /\ processed_jobs[1].combined_score = processed_jobs[2].combined_score
    /\ processed_jobs[1].id = 1
    /\ processed_jobs[2].id = 2

\* scoring or matching raised for posting i
RaisedFor(i) == relevance_log[i].raises \/ match_log[i].raises

\* C18: when scoring or matching raises for a posting, the batch goes on:
\* every posting of the batch is visited before the list is returned; the
\* posting is returned exactly when its title holds one of the keywords, and
\* then with relevance 7, match 5, combined 6 and empty skill lists.
C18_FallbackOnError ==
    /\ finished => Len(relevance_log) = Len(job_list)
    /\ \A i \in Visited :
          RaisedFor(i) =>
              /\ Kept(i) = job_list[i].keyword
              /\ \A k \in 1..Len(processed_jobs) :
                    processed_jobs[k].id = i =>
                        /\ processed_jobs[k].relevance_score = 7
                        /\ processed_jobs[k].match_score = 5
                        /\ processed_jobs[k].combined_score = 60
                        /\ processed_jobs[k].matching_skills = <<>>
                        /\ processed_jobs[k].missing_skills = <<>>

\* the first posting raised and was kept by its title, the second raised and
\* was dropped, and the list was returned
C18_Witness ==
    /\ finished
    /\ Len(job_list) = 2
    /\ RaisedFor(1) /\ Kept(1)
    /\ match_log[2].raises /\ ~Kept(2)

-----------------------------------------------------------------------------
(* main (main.py): one run of the pipeline.  The scrape is scrape_all(),   *)
(* the scoring is process_jobs_with_ai and the store is the store above;   *)
(* the notifier is a double that sends, fails or raises.                   *)

\* the postings of a run; keyword says whether the title holds one of the
\* keywords of the scoring fallback.  PostA and PostA3 share one IdentityKey
\* and differ in _job_key.
PostA  == [title |-> JobA.title,  company |-> JobA.company,  keyword |-> TRUE]
PostA3 == [title |-> JobA3.title, company |-> JobA3.company, keyword |-> FALSE]
PostB  == [title |-> JobB.title,  company |-> JobB.company,  keyword |-> FALSE]

\* what an adapter does in a run
RunOutcomes ==
    {[raises |-> TRUE, jobs |-> <<>>]}
    \cup {[raises |-> FALSE, jobs |-> js] :
             js \in {<<>>, <<PostA>>, <<PostB>>, <<PostA3, PostB>>, <<PostB, PostA>>}}

\* what earlier runs left in the data directory: nothing, or the files with
\* these postings in jobs.csv, jobs.json and the index
StoredBefore == {<<>>, <<PostA>>, <<PostB>>, <<PostB, PostA3>>}

\* how an append_job call of the Persist loop ends: no interruption in a run
\* that goes on
RunStops == Stops \ {"kill_csv", "kill_json", "kill_index"}

\* what emailer.send_notification does: it returns True, returns False (the
\* SMTP exchange failed) or raises (before its try)
NotifyResults == {"sent", "failed", "raised"}

\* a scraped posting as process_jobs_with_ai takes it, the i-th of new_jobs
RunJob(p, i) ==
    [title |-> p.title, company |-> p.company, id |-> i, keyword |-> p.keyword,
     scored |-> "no", relevance_score |-> 0, match_score |-> 0, combined_score |-> 0,
     ai_score |-> 0, matching_skills |-> NoSkills, missing_skills |-> NoSkills]

\* "emailer = EmailNotifier() if not args.no_email else None", then "if emailer"
NotifyEnabled_always(flag) == TRUE

NotifyEnabled(flag) == ~flag

\* the notifier's exception leaving main
AfterNotify_uncaught(result) == IF result = "raised" THEN "exit" ELSE "done"

\* the try/except around send_notification: whatever it does, main goes on
\* to its end
AfterNotify(result) == "done"

\* main is entered: the arguments, the adapters and the data directory
InitRun ==
    /\ run_pc = "start"
    /\ no_email \in BOOLEAN
    /\ \E before \in StoredBefore :
          /\ csv_rows = before
          /\ json_jobs = before
          /\ index = {KeyOf(before[i]) : i \in 1..Len(before)}
          /\ analytics = Len(before)
          /\ files = [csv |-> before # <<>>, json |-> before # <<>>,
                      index |-> before # <<>>, analytics |-> before # <<>>]
    /\ client = "none" /\ calls = <<>> /\ interrupted = <<>>
    /\ opened = [csv_rows |-> <<>>, json_jobs |-> <<>>, index |-> {}]
    /\ scraped \in [Sources -> RunOutcomes]
    /\ parallel = FALSE /\ pending = {} /\ all_jobs = <<>> /\ seen_keys = {}
    /\ returned = TRUE
    /\ job_list = <<>>
    /\ config = [min_relevance_score |-> 5, min_combined_score |-> 50]
    /\ doubles = [relevance |-> {4, 8}, match |-> {10}]
    /\ next_job = 1 /\ processed_jobs = <<>> /\ match_calls = {}
    /\ relevance_log = <<>> /\ match_log = <<>> /\ finished = TRUE
    /\ scraped_jobs = <<>> /\ run_new_jobs = <<>> /\ qualified_jobs = <<>>
    /\ store_next = 1 /\ stored_count = 0 /\ append_log = <<>> /\ notifications = <<>>
    /\ KeyIdle /\ DedupIdle /\ ScoreIdle
    /\ MatchIdle /\ AdapterIdle /\ RetryIdle

\* "Initialize components": the store is opened; a component that raises ends
\* the run with sys.exit(1).  Then scrape_all() is entered.
RunStart(ok) ==
    /\ run_pc = "start"
    /\ IF ok
       THEN /\ run_pc' = "scrape"
            /\ client' = "open"
            /\ files' = [csv |-> TRUE, json |-> TRUE, index |-> TRUE, analytics |-> TRUE]
            /\ opened' = [csv_rows |-> csv_rows, json_jobs |-> json_jobs, index |-> index]
            /\ pending' = Sources
            /\ returned' = FALSE
       ELSE /\ run_pc' = "exit"
            /\ UNCHANGED <<client, files, opened, pending, returned>>
    /\ UNCHANGED <<csv_rows, json_jobs, index, analytics, calls, interrupted>>
    /\ UNCHANGED <<scraped, parallel, all_jobs, seen_keys>>
    /\ UNCHANGED <<no_email, scraped_jobs, run_new_jobs, qualified_jobs, store_next,
                   stored_count, append_log, notifications>>
    /\ UNCHANGED <<runRest, keyVars, dedupVars, scoreVars, processVars>>

\* "if not scraped_jobs: return"
RunScraped ==
    /\ run_pc = "scrape"
    /\ returned
    /\ scraped_jobs' = all_jobs
    /\ run_pc' = IF all_jobs = <<>> THEN "done" ELSE "dedup"
    /\ UNCHANGED <<no_email, opened, run_new_jobs, qualified_jobs, store_next,
                   stored_count, append_log, notifications>>
    /\ UNCHANGED <<runRest, keyVars, storeVars, dedupVars, scrapeVars, scoreVars, processVars>>

\* Step 2, then "if not new_jobs", else process_jobs_with_ai is entered.
\* (The except clause of Step 2 needs an index file whose "index" is no
\* object, which the store never writes.)
RunDedup ==
    /\ run_pc = "dedup"
    /\ LET fresh == deduplicate_jobs(scraped_jobs, get_existing_jobs(index))
       IN  /\ run_new_jobs' = fresh
           /\ run_pc' = IF fresh = <<>> THEN "notify_none" ELSE "process"
           /\ job_list' = [i \in 1..Len(fresh) |-> RunJob(fresh[i], i)]
           /\ finished' = (fresh = <<>>)
    /\ UNCHANGED <<config, doubles, next_job, processed_jobs, match_calls,
                   relevance_log, match_log>>
    /\ UNCHANGED <<no_email, opened, scraped_jobs, qualified_jobs, store_next,
                   stored_count, append_log, notifications>>
    /\ UNCHANGED <<runRest, keyVars, storeVars, dedupVars, scrapeVars, scoreVars>>

\* process_jobs_with_ai has returned: "if not qualified_jobs", else Step 4
RunProcessed ==
    /\ run_pc = "process"
    /\ finished
    /\ qualified_jobs' = processed_jobs
    /\ run_pc' = IF processed_jobs = <<>> THEN "notify_none" ELSE "persist"
    /\ UNCHANGED <<no_email, opened, scraped_jobs, run_new_jobs, store_next,
                   stored_count, append_log, notifications>>
    /\ UNCHANGED <<runRest, keyVars, storeVars, dedupVars, scrapeVars, scoreVars, processVars>>

\* one pass of "for job in qualified_jobs": append_job, and the count
RunAppend(stop) ==
    /\ run_pc = "persist"
    /\ store_next <= Len(qualified_jobs)
    /\ LET p      == qualified_jobs[store_next]
           exists == job_exists(index, p.title, p.company)
       IN  /\ exists => stop = "none"
           /\ csv_rows'  = IF exists THEN csv_rows ELSE CsvAfter(csv_rows, p, stop)
           /\ json_jobs' = IF exists THEN json_jobs ELSE JsonAfter(json_jobs, p, stop)
           /\ index'     = IF exists THEN index ELSE IndexAfter(index, p, stop)
           /\ analytics' = IF exists THEN analytics ELSE AnalyticsAfter(analytics, stop)
           /\ stored_count' = IF AppendResult(exists, stop) THEN stored_count + 1
                              ELSE stored_count
           /\ append_log' = Append(append_log,
                                   [id |-> p.id, ret |-> AppendResult(exists, stop),
                                    stop |-> stop])
    /\ store_next' = store_next + 1
    /\ UNCHANGED <<files, client, calls, interrupted>>
    /\ UNCHANGED <<run_pc, no_email, opened, scraped_jobs, run_new_jobs, qualified_jobs,
                   notifications>>
    /\ UNCHANGED <<runRest, keyVars, dedupVars, scrapeVars, scoreVars, processVars>>

\* the loop is over: get_stats, then Step 5
RunPersisted ==
    /\ run_pc = "persist"
    /\ store_next > Len(qualified_jobs)
    /\ run_pc' = "notify_done"
    /\ UNCHANGED <<no_email, opened, scraped_jobs, run_new_jobs, qualified_jobs,
                   store_next, stored_count, append_log, notifications>>
    /\ UNCHANGED <<runRest, keyVars, storeVars, dedupVars, scrapeVars, scoreVars, processVars>>

\* "if emailer: try: emailer.send_notification(...) except: ...", at each of
\* its three places, and main returns
RunNotify(result) ==
    /\ run_pc \in {"notify_none", "notify_done"}
    /\ IF NotifyEnabled(no_email)
       THEN notifications' =
               Append(notifications,
                      IF run_pc = "notify_none"
                      THEN [jobs |-> <<>>, stored_count |-> 0, result |-> result]
                      ELSE [jobs |-> qualified_jobs, stored_count |-> stored_count,
                            result |-> result])
       ELSE /\ result = "sent"
            /\ notifications' = notifications
    /\ run_pc' = IF NotifyEnabled(no_email) THEN AfterNotify(result) ELSE "done"
    /\ UNCHANGED <<no_email, opened, scraped_jobs, run_new_jobs, qualified_jobs,
                   store_next, stored_count, append_log>>
    /\ UNCHANGED <<runRest, keyVars, storeVars, dedupVars, scrapeVars, scoreVars, processVars>>

RunNext ==
    \/ \E ok \in BOOLEAN : RunStart(ok)
    \/ ScrapeSequential
    \/ ScrapeReturn
    \/ RunScraped
    \/ RunDedup
    \/ \E rel \in Outcomes(doubles.relevance), mat \in Outcomes(doubles.match) :
          ProcessPosting(rel, mat)
    \/ ProcessReturn
    \/ RunProcessed
    \/ \E stop \in RunStops : RunAppend(stop)
    \/ RunPersisted
    \/ \E result \in NotifyResults : RunNotify(result)

SpecRun == InitRun /\ [][RunNext]_vars

-----------------------------------------------------------------------------
(* Claims about the store.                                                 *)

IsPrefix(s, t) == Len(s) <= Len(t) /\ \A i \in 1..Len(s) : s[i] = t[i]

\* how often IdentityKey k is recorded in a list of postings
Occurrences(rows, k) == Cardinality({i \in 1..Len(rows) : KeyOf(rows[i]) = k})

\* two append_job calls in a row with the same posting, neither meeting a
\* file error
TwiceInARow ==
    /\ Len(calls) = 2
    /\ calls[1].job = calls[2].job
    /\ calls[1].stop = "none"
    /\ calls[2].stop = "none"

SameTwice ==
    /\ Len(calls) = 2
    /\ calls[1].job = calls[2].job

NoDuplicateKey ==
    /\ \A i, j \in 1..Len(json_jobs) :
            i # j => KeyOf(json_jobs[i]) # KeyOf(json_jobs[j])
    /\ \A i, j \in 1..Len(csv_rows) :
            i # j => KeyOf(csv_rows[i]) # KeyOf(csv_rows[j])

\* C2 as stated: over any sequence of append_job calls and any number of
\* runs, no IdentityKey occurs twice in the record list or in the tabular
\* log, and no existing record is modified or removed.
C2_AtMostOnceEver ==
    [][ /\ NoDuplicateKey'
        /\ IsPrefix(json_jobs, json_jobs')
        /\ IsPrefix(csv_rows, csv_rows') ]_vars

\* C3 as stated: between append_job calls, whether each call succeeded, was
\* rejected or failed with a write error, every stored record's key is in the
\* index and every key of the index has a stored record.
C3_IndexMatchesRecords ==
    (client \in {"open", "closed"} /\ interrupted = <<>>) =>
        {KeyOf(json_jobs[i]) : i \in 1..Len(json_jobs)} = index

\* C4 as stated: after an interruption between append_job's writes, a
\* re-initialisation and a new append of the same posting, the posting's key
\* is recorded exactly once in every artifact and is in the index.
C4_ConsistentAfterInterruption ==
    (interrupted # <<>> /\ interrupted[1].phase = "retried") =>
        LET k == KeyOf(interrupted[1].job)
        IN  /\ Occurrences(csv_rows, k) = 1
            /\ Occurrences(json_jobs, k) = 1
            /\ k \in index

-----------------------------------------------------------------------------
(* Claims about a run of main.                                             *)

\* the store as the run found it
StoreUntouched ==
    /\ csv_rows = opened.csv_rows
    /\ json_jobs = opened.json_jobs
    /\ index = opened.index

\* C13 as stated: when every adapter returns nothing, the run completes,
\* stores nothing, and the notifier is called with an empty job list.
C13_EmptyScrapeNotifies ==
    (run_pc \notin {"start", "scrape", "exit"} /\ scraped_jobs = <<>>) =>
        /\ run_pc = "done"
        /\ StoreUntouched
        /\ stored_count = 0
        /\ ~no_email =>
              /\ Len(notifications) = 1
              /\ notifications[1].jobs = <<>>

\* the scrape is non-empty and the index the run found holds the IdentityKey
\* of every scraped posting
AllKnown ==
    /\ scraped_jobs # <<>>
    /\ \A i \in 1..Len(scraped_jobs) : IdentityKey(scraped_jobs[i]) \in opened.index

PhaseRank(pc) ==
    CASE pc = "start" -> 0
      [] pc = "scrape" -> 1
      [] pc = "dedup" -> 2
      [] pc = "process" -> 3
      [] pc = "persist" -> 4
      [] pc \in {"notify_none", "notify_done"} -> 5
      [] OTHER -> 6

\* C15: the phases of a run come in the order Scrape, Deduplicate,
\* Score+Match, Filter+Rank, Persist, Notify and none is entered again: no
\* adapter is merged after the dedup, nothing is scored before the scrape has
\* returned or after an append, nothing is appended before every surviving
\* posting was scored and the list ranked, and the notifier is called at most
\* once, after the last append, and never when notification is disabled.
C15_PhasesInOrder ==
    [][ /\ PhaseRank(run_pc') >= PhaseRank(run_pc)
        /\ (pending' # pending \/ all_jobs' # all_jobs) =>
              /\ run_pc \in {"start", "scrape"}
              /\ relevance_log = <<>> /\ append_log = <<>> /\ notifications = <<>>
        /\ run_new_jobs' # run_new_jobs =>
              /\ returned
              /\ relevance_log = <<>> /\ append_log = <<>> /\ notifications = <<>>
        /\ (relevance_log' # relevance_log \/ match_calls' # match_calls) =>
              /\ returned /\ run_pc = "process"
              /\ append_log = <<>> /\ notifications = <<>>
        /\ (append_log' # append_log \/ csv_rows' # csv_rows
               \/ json_jobs' # json_jobs \/ index' # index) =>
              /\ run_pc = "persist"
              /\ finished /\ Len(relevance_log) = Len(job_list)
              /\ qualified_jobs = processed_jobs
              /\ notifications = <<>>
        /\ notifications' # notifications =>
              /\ ~no_email
              /\ notifications = <<>>
              /\ Len(append_log) = Len(qualified_jobs)
              /\ run_pc' = "done"
      ]_vars

\* a run went through every phase: two postings scraped, scored, appended,
\* and one notification
C15_Witness ==
    /\ run_pc = "done"
    /\ Len(relevance_log) = 2
    /\ Len(append_log) = 2
    /\ Len(notifications) = 1

\* the appends of the run that returned true
TrueAppends == {i \in 1..Len(append_log) : append_log[i].ret}

\* C19 as stated: every qualified posting is appended whatever the earlier
\* appends did, and the count handed to the notifier is the number of appends
\* that returned true, which is the number of records the run added to the
\* store.
C19_PersistedCount ==
    run_pc \in {"notify_done", "done"} /\ qualified_jobs # <<>> =>
        /\ Len(append_log) = Len(qualified_jobs)
        /\ \A i \in 1..Len(append_log) : append_log[i].id = qualified_jobs[i].id
        /\ stored_count = Cardinality(TrueAppends)
        /\ \A k \in 1..Len(notifications) :
              notifications[k].stored_count = stored_count
        /\ stored_count = Len(json_jobs) - Len(opened.json_jobs)
        /\ stored_count = Len(csv_rows) - Len(opened.csv_rows)

\* every posting whose append returned true is in the record list, the
\* tabular log and the index
PersistedAsAppended ==
    \A i \in TrueAppends :
        /\ Occurrences(json_jobs, KeyOf(qualified_jobs[i])) >= 1
        /\ Occurrences(csv_rows, KeyOf(qualified_jobs[i])) >= 1
        /\ KeyOf(qualified_jobs[i]) \in index

\* C20: a notification that fails or raises, at any place where the run
\* notifies, does not stop the run and does not change the store: the run
\* ends normally with the store as the Persist phase left it, every appended
\* posting in it.
C20_NotifyFailureHarmless ==
    [][ notifications' # notifications =>
            /\ run_pc' = "done"
            /\ csv_rows' = csv_rows /\ json_jobs' = json_jobs /\ index' = index
            /\ analytics' = analytics
            /\ stored_count' = stored_count
            /\ PersistedAsAppended'
      ]_vars

\* a run that had stored postings ended normally although the notifier raised
C20_Witness ==
    /\ run_pc = "done"
    /\ stored_count = 2
    /\ Len(notifications) = 1
    /\ notifications[1].result = "raised"

-----------------------------------------------------------------------------
(* ResumeMatcher (llm/resume_matcher.py).                                  *)
(*                                                                         *)
(* A text is the set of its words; resume_text is held by its length, the  *)
(* only thing match_job asks of it before the prompt is built.  A skill    *)
(* is a string, lower() of "Python" is "python" and of "SQL" is "sql".     *)

\* SKILL_PATTERNS: the words _extract_skills_from_text looks for
SKILL_PATTERNS == {"python", "sql", "docker"}

\* str.lower() on the words of the model
Lower(w) ==
    CASE w = "Python" -> "python"
      [] w = "SQL" -> "sql"
      [] OTHER -> w

\* the words of title and description, and the skills an adapter listed
JobWords == {"Python", "sql", "docker", "senior"}
ListedSkills == {"SQL", "rust"}
MatchedJobs == [text : SUBSET JobWords, skills : SUBSET ListedSkills]

\* the skills of a profile: lower-cased when loaded (_load_user_skills) or
\* taken from SKILL_PATTERNS (_load_resume)
ProfileSkills == {"python", "sql", "docker", "rust"}

\* len(self.resume_text): no resume, 100 characters, 101 characters
ResumeLengths == {0, 100, 101}

\* What _call_ollama comes back with in match_job.  For a text: whether
\* re.search(r'\{[\s\S]*\}') finds a match ("found"), and what json.loads
\* makes of the match: "notjson" when it raises, else an object that has the
\* key match_score (has = "match_score", with its value) or not ("other").
\* A text that is JSON but not an object (7, [1, 2], "x") has no match or,
\* like [{...}], has an object as its match.
MatchResponses ==
    {[call |-> c, found |-> FALSE, has |-> "other", score |-> NoValue] :
        c \in {"failed", "timeout", "empty", "text"}}
    \cup {[call |-> "text", found |-> TRUE, has |-> h, score |-> NoValue] :
             h \in {"notjson", "other"}}
    \cup {[call |-> "text", found |-> TRUE, has |-> "match_score", score |-> v] :
             v \in ScoreValues}

\* _extract_skills_from_text(text)
extract_skills_from_text(text) == {Lower(w) : w \in text} \cap SKILL_PATTERNS

\* job_skills of _keyword_match: the skills found in title and description
\* and the lower-cased skills of the posting's list
JobSkills(job) ==
    extract_skills_from_text(job.text) \cup {Lower(w) : w \in job.skills}

\* match_score of _keyword_match
keyword_score_unshifted(matching, job_skills) ==
    IF job_skills = {} THEN 5
    ELSE Min(10, Max(1, (Cardinality(matching) * 10) \div Cardinality(job_skills)))
keyword_score(matching, job_skills) ==
    IF job_skills = {} THEN 5
    ELSE Min(10, Max(1, ((Cardinality(matching) * 10) \div Cardinality(job_skills)) + 2))

\* _keyword_match(job) for a profile; the lists are cut to 10 entries, more
\* than the skills of the model
keyword_match_misses(job, skills) ==
    LET job_skills == JobSkills(job)
        matching == skills \cap job_skills
        missing == job_skills \ skills
    IN  [raises |-> FALSE, match_score |-> keyword_score(missing, job_skills),
         matching_skills |-> matching, missing_skills |-> missing, keyword |-> TRUE]
keyword_match(job, skills) ==
    LET job_skills == JobSkills(job)
        matching == skills \cap job_skills
        missing == job_skills \ skills
    IN  [raises |-> FALSE, match_score |-> keyword_score(matching, job_skills),
         matching_skills |-> matching, missing_skills |-> missing, keyword |-> TRUE]

\* "if self.resume_text and len(self.resume_text) > 100"
InferenceAttempted_nonempty(len) == len > 0
InferenceAttempted(len) == len > 100

\* what the try block of match_job comes to: nothing returned (no match, or
\* an exception that is caught), or the clamped score returned
NothingParsed == [returned |-> FALSE, n |-> 0]
ParsedMatch(resp) ==
    IF resp.call # "text" \/ ~resp.found \/ resp.has = "notjson" THEN NothingParsed
    ELSE LET v == IF resp.has = "match_score" THEN resp.score ELSE [t |-> "int", n |-> 5]
         IN  IF IntRaises(v) THEN NothingParsed
             ELSE [returned |-> TRUE, n |-> Max(1, Min(10, v.n))]

\* match_job(job)
match_job(job, len, skills, resp) ==
    IF InferenceAttempted(len) /\ ParsedMatch(resp).returned
    THEN [raises |-> FALSE, match_score |-> ParsedMatch(resp).n, matching_skills |-> {},
          missing_skills |-> {}, keyword |-> FALSE]
    ELSE keyword_match(job, skills)

InitMatch ==
    /\ resume_text \in ResumeLengths
    /\ user_skills \in SUBSET ProfileSkills
    /\ matched_job \in MatchedJobs
    /\ match_response \in MatchResponses
    /\ match_result = [raises |-> FALSE, match_score |-> 0, matching_skills |-> {},
                       missing_skills |-> {}, keyword |-> FALSE]
    /\ inference_calls = 0 /\ mDone = FALSE
    /\ KeyIdle /\ StoreIdle /\ DedupIdle /\ ScrapeIdle /\ ScoreIdle /\ ProcessIdle
    /\ RunIdle /\ AdapterIdle /\ RetryIdle

MatchJob ==
    /\ ~mDone
    /\ inference_calls' = IF InferenceAttempted(resume_text) THEN 1 ELSE 0
    /\ match_result' = match_job(matched_job, resume_text, user_skills, match_response)
    /\ mDone' = TRUE
    /\ UNCHANGED <<resume_text, user_skills, matched_job, match_response, matchOthers>>

SpecMatch == InitMatch /\ [][MatchJob]_vars

\* C21: whatever the posting, the profile and the outcome of the inference,
\* match_job returns, without raising, a match_score that is an integer from
\* 1 to 10, and the inference is not invoked when there is no resume text or
\* one of at most 100 characters.
C21_MatchInRangeNeverRaises ==
    mDone =>
        /\ ~match_result.raises
        /\ match_result.match_score \in 1..10
        /\ resume_text <= 100 => inference_calls = 0

\* a resume of 101 characters: the inference ran and its out-of-range score
\* was clamped
C21_Witness ==
    /\ mDone /\ inference_calls = 1 /\ ~match_result.keyword
    /\ match_response.score.n = 15 /\ match_result.match_score = 10

\* C22: for a posting with skills, a profile whose matching skills are among
\* those of the profile matched gets a fallback score that is not higher.
C22_FallbackMonotonic ==
    (mDone /\ match_result.keyword /\ JobSkills(matched_job) # {}) =>
        \A other \in SUBSET ProfileSkills :
            keyword_match(matched_job, other).matching_skills
                    \subseteq match_result.matching_skills
                => keyword_match(matched_job, other).match_score
                       <= match_result.match_score

\* a profile with strictly fewer matching skills and a strictly lower score
C22_Witness ==
    /\ mDone /\ match_result.keyword /\ JobSkills(matched_job) # {}
    /\ \E other \in SUBSET ProfileSkills :
          /\ keyword_match(matched_job, other).matching_skills
                 \subseteq match_result.matching_skills
          /\ keyword_match(matched_job, other).matching_skills
                 # match_result.matching_skills
          /\ keyword_match(matched_job, other).match_score < match_result.match_score

\* C25: the fallback score is 5 for a posting without skills, and otherwise
\* floor(|matching| * 10 / |jobSkills|) + 2 held between 1 and 10; matching is
\* jobSkills within the profile, missing is jobSkills outside it, and the two
\* are disjoint parts of jobSkills.
C25_FallbackFormula ==
    (mDone /\ match_result.keyword) =>
        LET jobSkills == JobSkills(matched_job)
            matching == match_result.matching_skills
            missing == match_result.missing_skills
            n == (Cardinality(matching) * 10) \div Cardinality(jobSkills) + 2
        IN  /\ matching = jobSkills \cap user_skills
            /\ missing = jobSkills \ user_skills
            /\ matching \cap missing = {}
            /\ matching \subseteq jobSkills /\ missing \subseteq jobSkills
            /\ match_result.match_score =
                   IF jobSkills = {} THEN 5
                   ELSE IF n > 10 THEN 10 ELSE IF n < 1 THEN 1 ELSE n

\* one of three skills matched: floor(10/3) + 2 = 5
C25_Witness ==
    /\ mDone /\ match_result.keyword
    /\ Cardinality(match_result.matching_skills) = 1
    /\ Cardinality(match_result.missing_skills) = 2
    /\ match_result.match_score = 5

-----------------------------------------------------------------------------
(* Claims about the relevance scorer.                                      *)

\* the score of the keyword tiers found in a text: high before medium before
\* low, the first tier found decides
TierScore(found) ==
    IF "high" \in found THEN 9
    ELSE IF "medium" \in found THEN 7
    ELSE IF "low" \in found THEN 5
    ELSE 3

\* the keyword fallback is certain to have been used: _call_ollama gave None
\* or an empty output
FallbackCertain == scDone /\ response.call # "text"

\* C27 as stated: the fallback score is decided by the keyword tiers of the
\* posting's title, high before medium before low, and is one of 3, 5, 7, 9.
C27_TitleTiers ==
    FallbackCertain =>
        /\ relevance = Returned(TierScore(scored_job.title))
        /\ relevance.score \in {3, 5, 7, 9}

\* C27: the fallback score is decided by the keyword tiers found in the
\* lower-cased title, a blank and the lower-cased description taken together,
\* high before medium before low, and is one of 3, 5, 7, 9.
C27_CombinedTextTiers ==
    FallbackCertain =>
        /\ relevance =
               Returned(TierScore(scored_job.title \cup scored_job.description
                                      \cup scored_job.across))
        /\ relevance.score \in {3, 5, 7, 9}

\* a low-tier title with a high-tier description scores 9
C27_Witness ==
    /\ FallbackCertain
    /\ scored_job.title = {"low"} /\ scored_job.description = {"high"}
    /\ relevance.score = 9

\* a strategy of _parse_llm_response came to a score: the first strategy that
\* gave anything gave an object with a "score" that int() takes
YieldsScore(resp) ==
    /\ resp.call = "text"
    /\ parse_llm_response(resp.text).kind = "object"
    /\ parse_llm_response(resp.text).has = "score"
    /\ ~IntRaises(parse_llm_response(resp.text).score)

\* C28 as stated: the strategies are tried in order and the first that
\* succeeds decides; the keyword fallback is what score_relevance returns
\* exactly when the call failed or timed out or no strategy came to a score,
\* and otherwise it returns the parsed score held between 1 and 10.
C28_ParsedOrFallback ==
    scDone =>
        relevance =
            IF YieldsScore(response)
            THEN Returned(Max(1, Min(10, parse_llm_response(response.text).score.n)))
            ELSE Returned(fallback_score(scored_job))

-----------------------------------------------------------------------------
(* The adapters (scrapers/*.py).  One call of scrape(max_jobs), step by    *)
(* step: every request and every item of a payload is a step whose outcome *)
(* the source decides.  Three adapters stand for the three shapes of       *)
(* scrape: RemoteOK (one request, one try around the parse; Arbeitnow and  *)
(* Himalayas alike), YCombinator (a loop over queries with a try around    *)
(* each parse and a check against duplicates; Jobicy and Findwork alike,   *)
(* BuiltIn, LinkedIn, StackOverflow and GitHub without the check) and      *)
(* Indeed (an RSS stage and, when it gave fewer than 5 postings, a search  *)
(* stage for the rest, then its own deduplication and a slice).            *)
(* A description is held by its length.                                    *)

\* largest max_jobs explored
MaxLimit == 2
\* most items in one payload
MaxItems == 2
\* queries (tags, feeds, city sites) an adapter loops over; 3 to 5 in the code
NumQueries == 2
\* "if len(jobs) < 5" of IndeedScraper.scrape
RssEnough == 5
\* description[:1000]
DescriptionLimit == 1000

Adapters == {"remoteok", "ycombinator", "indeed"}

\* an argument of _standardize_job: given or not (None), and its text
Given(text) == [given |-> TRUE, text |-> text]
NotGiven == [given |-> FALSE, text |-> <<>>]
Unknown == <<"U", "n", "k", "n", "o", "w", "n">>

\* what a source sends for one posting: title, company and the length of the
\* description
RawPostings ==
    {[title |-> Given(<<"a">>), company |-> Given(<<"a">>), description |-> 10],
     [title |-> Given(<<"A">>), company |-> NotGiven, description |-> 1001],
     [title |-> Given(<<" ">>), company |-> Given(<<"\t", " ">>), description |-> 1000],
     [title |-> Given(<<>>), company |-> Given(<<>>), description |-> 0]}

NoRaw == [title |-> NotGiven, company |-> NotGiven, description |-> 0]

\* an item of a payload: a posting that passes the filters, an item the
\* filters drop (_is_ai_ml_job, _matches_preferences, a missing field), or an
\* item on which the parse raises
Items ==
    {[kind |-> "posting", raw |-> r] : r \in RawPostings}
    \cup {[kind |-> k, raw |-> NoRaw] : k \in {"filtered", "bad"}}

\* what the network does to a request
RequestOutcomes == {"ok", "timeout", "connection", "http_error"}

\* "x.strip() if x else 'Unknown'"
StripOrUnknown(v) == IF v.given /\ v.text # <<>> THEN strip(v.text) ELSE Unknown

\* BaseScraper._standardize_job(title, company, ..., description)
standardize_job(raw) ==
    [title |-> StripOrUnknown(raw.title),
     company |-> StripOrUnknown(raw.company),
     description |-> IF raw.description > DescriptionLimit THEN DescriptionLimit
                     ELSE raw.description]

\* BaseScraper._safe_request: the response, or None when the request failed
safe_request_uncaught(outcome) ==
    IF outcome = "ok" THEN "response"
    ELSE IF outcome = "timeout" THEN "raises" ELSE "none"
safe_request(outcome) == IF outcome = "ok" THEN "response" ELSE "none"

\* "if len(jobs) >= max_jobs: break"
LimitReached_after(js, n) == Len(js) > n
LimitReached(js, n) == Len(js) >= n

\* "not any(j['title'] == job['title'] and j['company'] == job['company'] ...)"
AlreadyIn(js, job) ==
    \E i \in 1..Len(js) : js[i].title = job.title /\ js[i].company = job.company

\* IndeedScraper.scrape, lines 37-47: the first posting of every
\* f"{title}|{company}".lower(), then unique_jobs[:max_jobs]
IndeedKey(job) == LowerStr(job.title \o <<"|">> \o job.company)
IndeedResult(js, n) ==
    LET unique == AtPositions(js,
                              {i \in 1..Len(js) :
                                  \A j \in 1..(i - 1) : IndeedKey(js[j]) # IndeedKey(js[i])},
                              1)
    IN  SubSeq(unique, 1, Min(n, Len(unique)))

InitAdapter ==
    /\ adapter \in Adapters
    /\ max_jobs \in 0..MaxLimit
    /\ stage = IF adapter = "indeed" THEN "rss" ELSE "main"
    /\ limit = max_jobs
    /\ a_pc = IF adapter = "remoteok" THEN "request" ELSE "query"
    /\ queries_left = IF adapter = "remoteok" THEN 1 ELSE NumQueries
    /\ items_left = 0
    /\ stage_jobs = <<>> /\ scrape_jobs = <<>> /\ appended = <<>> /\ failed = {}
    /\ scrape_result = <<>> /\ scrape_raised = FALSE
    /\ KeyIdle /\ StoreIdle /\ DedupIdle /\ ScrapeIdle /\ ScoreIdle /\ ProcessIdle
    /\ RunIdle /\ MatchIdle /\ RetryIdle

\* "return jobs" of RemoteOK and YCombinator; the end of IndeedScraper.scrape
ScrapeReturns(js) ==
    /\ scrape_result' = js
    /\ a_pc' = "returned"

\* the loop over a payload is left (its end, a break, or an exception caught
\* by the except around it): RemoteOK returns, the others take the next query
PayloadLeft ==
    IF adapter = "remoteok"
    THEN /\ ScrapeReturns(stage_jobs)
         /\ UNCHANGED <<queries_left>>
    ELSE /\ a_pc' = "query"
         /\ queries_left' = queries_left - 1
         /\ UNCHANGED <<scrape_result>>

\* the head of the loop over queries: the next request, or the end of the
\* stage when the queries are used up or the limit is reached
QueryLoop ==
    /\ a_pc = "query"
    /\ IF queries_left > 0 /\ ~LimitReached(stage_jobs, limit)
       THEN /\ a_pc' = "request"
            /\ UNCHANGED <<stage, limit, queries_left, stage_jobs, scrape_jobs,
                           scrape_result>>
       ELSE IF adapter = "indeed" /\ stage = "rss" /\ Len(stage_jobs) < RssEnough
       THEN \* jobs.extend(self._scrape_search(max_jobs - len(jobs)))
            /\ scrape_jobs' = stage_jobs
            /\ stage' = "search"
            /\ limit' = max_jobs - Len(stage_jobs)
            /\ stage_jobs' = <<>>
            /\ queries_left' = NumQueries
            /\ a_pc' = "query"
            /\ UNCHANGED <<scrape_result>>
       ELSE /\ scrape_jobs' = scrape_jobs \o stage_jobs
            /\ ScrapeReturns(IF adapter = "indeed"
                             THEN IndeedResult(scrape_jobs \o stage_jobs, max_jobs)
                             ELSE stage_jobs)
            /\ UNCHANGED <<stage, limit, queries_left, stage_jobs>>
    /\ UNCHANGED <<adapter, max_jobs, items_left, appended, failed, scrape_raised,
                   adapterOthers>>

\* one request: it fails and _safe_request gives None, or the payload is
\* read (response.json(), BeautifulSoup), which may raise inside the try
Request(outcome, readable, n) ==
    /\ a_pc = "request"
    /\ IF safe_request(outcome) = "raises"
       THEN /\ scrape_raised' = TRUE
            /\ a_pc' = "returned"
            /\ UNCHANGED <<queries_left, items_left, failed, scrape_result>>
       ELSE IF safe_request(outcome) = "none"
       THEN /\ failed' = failed \cup {"request"}
            /\ PayloadLeft
            /\ UNCHANGED <<items_left, scrape_raised>>
       ELSE IF ~readable
       THEN /\ failed' = failed \cup {"parse"}
            /\ PayloadLeft
            /\ UNCHANGED <<items_left, scrape_raised>>
       ELSE /\ a_pc' = "items"
            /\ items_left' = n
            /\ UNCHANGED <<queries_left, failed, scrape_result, scrape_raised>>
    /\ UNCHANGED <<adapter, max_jobs, stage, limit, stage_jobs, scrape_jobs, appended,
                   adapterOthers>>

\* the loop over the items ends: no item is left or the limit is reached
PayloadEnd ==
    /\ a_pc = "items"
    /\ items_left = 0 \/ LimitReached(stage_jobs, limit)
    /\ PayloadLeft
    /\ UNCHANGED <<adapter, max_jobs, stage, limit, items_left, stage_jobs, scrape_jobs,
                   appended, failed, scrape_raised, adapterOthers>>

\* one item of the payload
Item(item) ==
    /\ a_pc = "items"
    /\ items_left > 0 /\ ~LimitReached(stage_jobs, limit)
    /\ CASE item.kind = "bad" ->
              /\ failed' = failed \cup {"parse"}
              /\ PayloadLeft
              /\ UNCHANGED <<items_left, stage_jobs, appended>>
         [] item.kind = "filtered" ->
              /\ items_left' = items_left - 1
              /\ UNCHANGED <<a_pc, queries_left, stage_jobs, appended, failed,
                             scrape_result>>
         [] item.kind = "posting" ->
              /\ items_left' = items_left - 1
              /\ IF adapter = "ycombinator"
                    /\ AlreadyIn(stage_jobs, standardize_job(item.raw))
                 THEN UNCHANGED <<stage_jobs, appended>>
                 ELSE /\ stage_jobs' = Append(stage_jobs, standardize_job(item.raw))
                      /\ appended' = Append(appended, standardize_job(item.raw))
              /\ UNCHANGED <<a_pc, queries_left, failed, scrape_result>>
    /\ UNCHANGED <<adapter, max_jobs, stage, limit, scrape_jobs, scrape_raised,
                   adapterOthers>>

AdapterNext ==
    \/ QueryLoop
    \/ \E outcome \in RequestOutcomes, readable \in BOOLEAN, n \in 0..MaxItems :
          Request(outcome, readable, n)
    \/ PayloadEnd
    \/ \E item \in Items : Item(item)

SpecAdapter == InitAdapter /\ [][AdapterNext]_vars

\* C23 as stated: every posting an adapter makes through _standardize_job has
\* a title and a company that are not empty, whatever the raw values (empty,
\* missing, blank), and a description of at most 1000 characters.
C23_TitleAndCompanyNeverEmpty ==
    \A i \in 1..Len(appended) :
        /\ appended[i].title # <<>>
        /\ appended[i].company # <<>>
        /\ appended[i].description <= 1000

\* C24: scrape never raises on a failed request or a failed parse, and what
\* it returns is made of every posting it had standardized and kept: the
\* list itself, and for Indeed the list after its deduplication and slice.
C24_FailuresKeepPartialResults ==
    /\ ~scrape_raised
    /\ a_pc = "returned" =>
           scrape_result = IF adapter = "indeed" THEN IndeedResult(appended, max_jobs)
                           ELSE appended

\* a scrape returned a posting although a request and a parse had failed
C24_Witness ==
    /\ a_pc = "returned" /\ ~scrape_raised
    /\ failed = {"request", "parse"}
    /\ scrape_result # <<>>

\* C30: scrape(max_jobs) returns at most max_jobs postings, for every
\* max_jobs from 0 on, every payload and every number of queries and stages.
C30_AtMostMaxJobs ==
    a_pc = "returned" => Len(scrape_result) <= max_jobs

\* Indeed returned max_jobs postings, the last of them from the search stage
C30_Witness ==
    /\ a_pc = "returned" /\ adapter = "indeed" /\ stage = "search"
    /\ max_jobs = MaxLimit /\ Len(scrape_result) = max_jobs
    /\ stage_jobs # <<>> /\ Len(scrape_jobs) = max_jobs

-----------------------------------------------------------------------------
(* retry_with_backoff (utils/helpers.py).  An invocation of the wrapped    *)
(* function returns (its value is the number of the invocation) or raises  *)
(* an Exception; the exception is [attempt, kind].  Delays are in seconds. *)

\* largest max_retries explored
MaxRetries == 3

BaseDelays == {0, 1, 3}

\* what one invocation of func does
InvocationOutcomes == {"ok", "ValueError", "OSError"}

\* "if attempt < max_retries"
AnotherAttempt(k, n) == k < n

\* "delay = base_delay * (2 ** attempt)"
Delay_linear(base, k) == base * (k + 1)
Delay(base, k) == base * (2 ^ k)

InitRetry ==
    /\ max_retries \in 0..MaxRetries
    /\ base_delay \in BaseDelays
    /\ attempt = 0
    /\ r_pc = "call"
    /\ attempts_log = <<>> /\ waits = <<>> /\ last_exception = NoException
    /\ retry_result = [raised |-> FALSE, value |-> 0, exception |-> NoException]
    /\ KeyIdle /\ StoreIdle /\ DedupIdle /\ ScrapeIdle /\ ScoreIdle /\ ProcessIdle
    /\ RunIdle /\ MatchIdle /\ AdapterIdle

\* one pass of "for attempt in range(max_retries + 1)": func is invoked and
\* returns, or raises; after the last pass the loop is left and
\* last_exception is raised
Invoke(outcome) ==
    /\ r_pc = "call"
    /\ attempt <= max_retries
    /\ attempts_log' = Append(attempts_log, outcome)
    /\ IF outcome = "ok"
       THEN /\ retry_result' = [raised |-> FALSE, value |-> Len(attempts_log) + 1,
                                exception |-> NoException]
            /\ r_pc' = "returned"
            /\ UNCHANGED <<attempt, last_exception>>
       ELSE LET e == [attempt |-> attempt, kind |-> outcome]
            IN  /\ last_exception' = e
                /\ IF AnotherAttempt(attempt, max_retries)
                   THEN /\ r_pc' = "sleep"
                        /\ UNCHANGED <<attempt, retry_result>>
                   ELSE /\ r_pc' = "raised"
                        /\ attempt' = attempt + 1
                        /\ retry_result' = [raised |-> TRUE, value |-> 0, exception |-> e]
    /\ UNCHANGED <<max_retries, base_delay, waits, retryOthers>>

\* time.sleep(delay), then the next pass
Sleep ==
    /\ r_pc = "sleep"
    /\ waits' = Append(waits, Delay(base_delay, attempt))
    /\ attempt' = attempt + 1
    /\ r_pc' = "call"
    /\ UNCHANGED <<max_retries, base_delay, attempts_log, last_exception, retry_result,
                   retryOthers>>

RetryNext ==
    \/ \E outcome \in InvocationOutcomes : Invoke(outcome)
    \/ Sleep

SpecRetry == InitRetry /\ [][RetryNext]_vars

\* the wrapper runs on until it returns or raises
SpecRetryFair == SpecRetry /\ WF_vars(RetryNext)

Finished == r_pc \in {"returned", "raised"}

\* the failed invocations so far
Failures == {i \in 1..Len(attempts_log) : attempts_log[i] # "ok"}

\* what holds of the wrapper at every moment
RetryInBounds ==
    /\ Len(attempts_log) <= max_retries + 1
    \* the first success ends it: only the last invocation can have returned
    /\ \A i \in 1..Len(attempts_log) :
          attempts_log[i] = "ok" => (i = Len(attempts_log) /\ r_pc = "returned")
    /\ r_pc = "returned" =>
          /\ ~retry_result.raised
          /\ retry_result.value = Len(attempts_log)
          /\ attempts_log[Len(attempts_log)] = "ok"
    \* a wait of base_delay * 2^k after the k-th failure, when an attempt follows
    /\ \A k \in 1..Len(waits) : waits[k] = base_delay * (2 ^ (k - 1))
    /\ Len(waits) = CASE r_pc = "call" -> Cardinality(Failures)
                      [] r_pc = "sleep" -> Cardinality(Failures) - 1
                      [] r_pc = "returned" -> Cardinality(Failures)
                      [] r_pc = "raised" -> Cardinality(Failures) - 1
    /\ r_pc = "raised" =>
          /\ Cardinality(Failures) = max_retries + 1
          /\ retry_result.raised
          /\ retry_result.exception =
                 [attempt |-> max_retries, kind |-> attempts_log[max_retries + 1]]

\* C29: the wrapped function is invoked at most max_retries + 1 times; the
\* first success is returned and nothing is invoked after it; the wrapper
\* waits base_delay * 2^k after the k-th failure when another attempt
\* follows; after max_retries + 1 failures it raises the exception of the
\* last attempt; and it always comes to an end.
C29_RetryBoundedAndTerminates == []RetryInBounds /\ <>Finished

\* three retries all failed: four invocations, waits of 3, 6 and 12 seconds,
\* and the exception of the fourth attempt raised
C29_Witness ==
    /\ r_pc = "raised" /\ max_retries = 3 /\ base_delay = 3
    /\ Len(attempts_log) = 4
    /\ waits = <<3, 6, 12>>
    /\ attempts_log[3] = "ValueError" /\ retry_result.exception.kind = "OSError"

-----------------------------------------------------------------------------
(* The normalisation functions applied to every title of the bound.        *)

InitKey ==
    /\ kTitle \in Titles
    /\ kCompany \in Companies
    /\ kKey = <<>> /\ kStoreKey = <<>> /\ kAgain = <<>> /\ kBase = <<>>
    /\ kDone = FALSE
    /\ StoreIdle /\ DedupIdle /\ ScrapeIdle /\ ScoreIdle /\ ProcessIdle /\ RunIdle
    /\ MatchIdle /\ AdapterIdle /\ RetryIdle

SpecKey == InitKey /\ [][KeyNext]_vars

\* C9 as stated: the key is unchanged when its own title and company parts
\* are normalised again, inputs that differ only in case, punctuation or
\* whitespace runs have the same key, and the helper's and the store's
\* functions return the same key.
C9_KeyIdempotentInsensitive ==
    kDone => /\ kAgain = kKey
             /\ kBase = kKey
             /\ kStoreKey = kKey

\* the index after the posting (kTitle, kCompany) was appended in an earlier
\* run
IndexedEarlier == {kStoreKey}

\* C26 as stated: every key of the index comes back from get_existing_jobs as
\* a (title, company) pair with that very key, so a posting appended in an
\* earlier run is removed by deduplicate_jobs(scraped, get_existing_jobs())
\* when it is scraped again.
C26_IndexRoundTrip ==
    kDone =>
        /\ \A key \in IndexedEarlier :
              \E pair \in get_existing_jobs(IndexedEarlier) :
                  normalize_job_key(pair[1], pair[2]) = key
        /\ deduplicate_jobs(<<[title |-> kTitle, company |-> kCompany]>>,
                            get_existing_jobs(IndexedEarlier)) = <<>>

====
